---------------------------- MODULE Spec2Model ----------------------------
(***************************************************************************)
(* A model of the XL scanner (scanner.c, name.c, blob.h).                  *)
(*                                                                         *)
(* Bytes are their ASCII codes.  The model covers 7-bit input; EOF is the  *)
(* C value -1, and `char' is signed (a pushed-back EOF is stored as -1 and *)
(* read back as EOF).  The scanner is built with assertions enabled: a     *)
(* failed assert() ends the run ("ABORT").  A loop of the source that can  *)
(* never exit ends the run as "HANG".                                      *)
(***************************************************************************)
EXTENDS Integers, Sequences, FiniteSets, TLC

VARIABLES
    s,          \* the scanner_t object (scanner.h)
    stream,     \* the bytes the reader callback has not delivered yet
    position,   \* the position registry's current position (number of steps)
    errors,     \* the messages passed to error(), in order
    tok,        \* the token returned by the last scanner_read ("NONE" before)
    run,        \* "ok" | "aborted" (assert failed) | "hung" (endless loop)
    hist,       \* one record per scanner_read call made so far
    given,      \* the whole input the stream was opened on
    out,        \* what name_is_valid and scanner_normalize gave when called
                \* on their own; the values of scanner_open_parenthese that
                \* the caller holds
                \* (under SpecTree: the tree nodes and the last call of
                \* delimited_text_handler)
    sink        \* error.c: the errors buffers, the current one, and the
                \* buffers the callers of errors_save hold

vars == <<s, stream, position, errors, tok, run, hist, given, out, sink>>

-----------------------------------------------------------------------------
(* Characters                                                              *)

EOFc   == -1
NUL    == 0
SOH    == NUL + 1
BS     == 8
TAB    == 9
NL     == 10
SP     == 32
DQUOTE == 34
HASH   == 35
DOLLAR == 36
SQUOTE == 39
PLUS   == 43
MINUS  == 45
DOT    == 46
EQUALS == 61
SLASH  == 47
USCORE == 95
Char0  == 48
Char9  == 57
UpperA == 65
UpperE == 69
UpperZ == 90
LowerA == 97
LowerE == 101
LowerZ == 122

\* <ctype.h> in the "C" locale; every one is false for EOF.
isspace(c) == c \in 9..13 \/ c = SP
isdigit(c) == c \in Char0..Char9
isupper(c) == c \in UpperA..UpperZ
islower(c) == c \in LowerA..LowerZ
isalpha(c) == isupper(c) \/ islower(c)
isalnum(c) == isalpha(c) \/ isdigit(c)
ispunct(c) == c \in 33..47 \/ c \in 58..64 \/ c \in 91..96 \/ c \in 123..126

\* A lower-casing that turns an upper-case letter into the next one.
tolower_Next(c) == IF isupper(c) THEN c + 1 ELSE c

tolower(c) == IF isupper(c) THEN c + (LowerA - UpperA) ELSE c

\* utf8.h, for 7-bit bytes and EOF: a letter starts a name, and no 7-bit
\* byte is a UTF-8 lead or continuation byte.
utf8_isalpha(c)  == isalpha(c)
utf8_is_first(c) == FALSE
utf8_is_next(c)  == FALSE

-----------------------------------------------------------------------------
(* Sequences                                                               *)

Last(q)    == q[Len(q)]
Front(q)   == SubSeq(q, 1, Len(q) - 1)
Take(q, n) == SubSeq(q, 1, n)

RECURSIVE SeqsUpTo(_, _)
SeqsUpTo(A, n) ==
    IF n = 0 THEN {<<>>}
    ELSE LET shorter == SeqsUpTo(A, n - 1)
         IN  shorter \cup {Append(q, a) : q \in {x \in shorter : Len(x) = n - 1}, a \in A}

RECURSIVE Count(_, _)
Count(q, x) == IF q = <<>> THEN 0
               ELSE (IF Head(q) = x THEN 1 ELSE 0) + Count(Tail(q), x)

-----------------------------------------------------------------------------
(* name.c                                                                  *)

RECURSIVE AllPunct(_)
AllPunct(d) == d = <<>> \/ (ispunct(Head(d)) /\ AllPunct(Tail(d)))

\* The loop of the alphabetic branch: had_underscore starts TRUE.
RECURSIVE AlphaLoop(_, _)
AlphaLoop(d, had_underscore) ==
    IF d = <<>> THEN TRUE
    ELSE LET c == Head(d) IN
         IF c = USCORE /\ had_underscore THEN FALSE
         ELSE IF c # USCORE /\ ~isalnum(c) THEN FALSE
         ELSE AlphaLoop(Tail(d), c = USCORE)

name_is_valid(d) ==
    IF d = <<>> THEN FALSE
    ELSE IF ispunct(Head(d)) THEN AllPunct(d)
    ELSE IF isalpha(Head(d)) THEN AlphaLoop(d, TRUE)
    ELSE Len(d) = 1 /\ Head(d) \in {NL, TAB, BS}

-----------------------------------------------------------------------------
(* The scanner object and the machine a call runs on                       *)

\* A NULL syntax_p (discovery mode), and a syntax table: its operator
\* spellings and its block openers with their closers.
NoSyntax == [present |-> FALSE, operators |-> {}, blocks |-> {}]
Syntax(ops, blocks) == [present |-> TRUE, operators |-> ops, blocks |-> blocks]

IsPrefix(p, q) == Len(p) <= Len(q) /\ Take(q, Len(p)) = p

\* syntax_is_operator: may the spelling be extended as an operator?
syntax_is_operator(syn, text) ==
    \E op \in syn.operators : IsPrefix(text, op) /\ text # op

\* syntax_is_block: is the name a block opener?
syntax_is_block(syn, name) == \E b \in syn.blocks : b[1] = name
BlockClosing(syn, name) == (CHOOSE b \in syn.blocks : b[1] = name)[2]
NoName   == <<NUL>>      \* a NULL name_p (no valid name holds a NUL byte)
NoValue  == [kind |-> "none"]

\* scanner_new
NewScanner(syntax) ==
    [ reader           |-> FALSE,
      syntax           |-> syntax,
      source           |-> <<>>,
      source_pos       |-> 0,
      scanned          |-> NoValue,
      indents          |-> <<>>,
      block_close      |-> NoName,
      indent           |-> 0,
      column           |-> 0,
      pending_char     |-> <<0, 0>>,
      indent_char      |-> 0,
      checking_indent  |-> FALSE,
      setting_indent   |-> FALSE,
      had_space_before |-> FALSE,
      had_space_after  |-> FALSE ]

\* scanner_open_stream
OpenStream(sc) == [sc EXCEPT !.reader = TRUE]

\* What one call works on: the scanner, the stream, the position registry,
\* the error sink, and how the call ended if it did not return ("" while it
\* runs normally).  ws counts the bytes the whitespace loop consumed without
\* appending them to the spelling, invoked the calls of the reader callback,
\* pushed the characters passed to scanner_ungetchar, in order.
Machine(sc, in, pos, errs, mem) ==
    [ sc |-> sc, input |-> in, position |-> pos, errors |-> errs,
      oob |-> mem, fail |-> "", ws |-> 0, invoked |-> 0,
      pushed |-> <<>> ]

Failed(m) == m.fail # ""
Fail(m, why) == IF Failed(m) THEN m ELSE [m EXCEPT !.fail = why]

\* error(): the message reaches the sink tagged with its position.
error(m, pos, msg) ==
    [m EXCEPT !.errors = Append(@, [pos |-> pos, msg |-> msg])]

PendingCount(sc) ==
    (IF sc.pending_char[1] # 0 THEN 1 ELSE 0) + (IF sc.pending_char[2] # 0 THEN 1 ELSE 0)

\* A scanner_getchar that keeps the reader after it delivered nothing.
scanner_getchar_KeepReader(m) ==
    LET c == m.sc.pending_char[1] IN
    IF c # 0
    THEN [m |-> [m EXCEPT !.sc.pending_char = <<m.sc.pending_char[2], 0>>], c |-> c]
    ELSE IF ~m.sc.reader THEN [m |-> m, c |-> EOFc]
    ELSE IF m.input = <<>>
         THEN [m |-> [m EXCEPT !.invoked = @ + 1], c |-> EOFc]
         ELSE [m |-> [m EXCEPT !.input = Tail(@), !.invoked = @ + 1],
               c |-> Head(m.input)]

\* scanner_getchar: the result is [m, c].  The reader delivers one byte of
\* the stream, or none at its end.
scanner_getchar(m) ==
    LET c == m.sc.pending_char[1] IN
    IF c # 0
    THEN [m |-> [m EXCEPT !.sc.pending_char = <<m.sc.pending_char[2], 0>>], c |-> c]
    ELSE IF ~m.sc.reader THEN [m |-> m, c |-> EOFc]
    ELSE IF m.input = <<>>
         THEN [m |-> [m EXCEPT !.sc.reader = FALSE, !.invoked = @ + 1],
               c |-> EOFc]
         ELSE [m |-> [m EXCEPT !.input = Tail(@), !.invoked = @ + 1],
               c |-> Head(m.input)]

\* scanner_ungetchar
scanner_ungetchar(m, c) ==
    IF m.sc.pending_char[2] # 0
    THEN Fail(m, "assert: Max two pending char at a time")
    ELSE [m EXCEPT !.sc.pending_char = <<c, m.sc.pending_char[1]>>,
                   !.pushed = Append(@, c)]

\* A scanner_position that takes the two pushback slots off the position
\* whenever a character is pending.
scanner_position_BothSlots(m) ==
    m.position - (IF PendingCount(m.sc) > 0 THEN 2 ELSE 0)

\* scanner_position
scanner_position(m) == m.position - PendingCount(m.sc)

\* position_step
position_step(m) == [m EXCEPT !.position = @ + 1]

\* scanner_consume
scanner_consume(m, c) ==
    position_step(IF c # 0 THEN [m EXCEPT !.sc.source = Append(@, c)] ELSE m)

\* scanner_nextchar
scanner_nextchar(m, c) == scanner_getchar(scanner_consume(m, c))

-----------------------------------------------------------------------------
(* indents: a blob_type(unsigned, indents) stack                           *)

indents_length(sc) == Len(sc.indents)

\* indents_top reads data[length-1].  On an empty stack that is the word
\* just before the data, which is (half of) the blob's own length field:
\* the stack is empty, so that word holds 0.
indents_top(sc) == IF sc.indents = <<>> THEN 0 ELSE Last(sc.indents)

indents_push(m, v) == [m EXCEPT !.sc.indents = Append(@, v)]

indents_pop(m) ==
    IF m.sc.indents = <<>> THEN Fail(m, "assert: Can only pop if non-empty")
    ELSE [m EXCEPT !.sc.indents = Front(@)]

-----------------------------------------------------------------------------
(* scanner_normalize                                                       *)

RECURSIVE StripLower(_)
StripLower(d) ==
    IF d = <<>> THEN <<>>
    ELSE IF Head(d) = USCORE THEN StripLower(Tail(d))
    ELSE <<tolower(Head(d))>> \o StripLower(Tail(d))

\* The first loop leaves in `normalized' what the LAST byte gave it.
Normalized(src) ==
    src = <<>> \/ (Last(src) # USCORE /\ Last(src) = tolower(Last(src)))

NormalizedSize(src) == Len(src) - Count(src, USCORE)

\* The result is [m, name]: the call aborts when an assertion fails, in
\* scanner_normalize itself or in name_handler's TREE_INITIALIZE, which
\* checks the first normalized_size bytes of the source.
scanner_normalize(m, input) ==
    IF ~name_is_valid(input)
    THEN [m |-> Fail(m, "assert: Normalizing invalid name"), name |-> NoName]
    ELSE IF Normalized(input) THEN [m |-> m, name |-> input]
    ELSE IF ~name_is_valid(Take(input, NormalizedSize(input)))
    THEN [m |-> Fail(m, "assert: Name must respect XL syntax"), name |-> NoName]
    ELSE [m |-> m, name |-> StripLower(input)]

\* name_compare(a, b) == 0
NameEqual(a, b) == StripLower(a) = StripLower(b)

-----------------------------------------------------------------------------
(* scanner_read, part by part.  A part that returns gives [m, tok, path].  *)

Ret(m, token, path) == [m |-> m, tok |-> token, path |-> path]

MixedIndent  == "Mixed tabs and spaces in indentation"
BadUnindent  == "Unindenting to the right of previous indentation"
EofInText    == "End of input in the middle of a text"
NotOneChar   == "Character constant should contain one character"

\* An entry that leaves the scanned value of the call before.
ReadEntry_KeepsValue(m) ==
    [m EXCEPT !.sc.source = <<>>, !.sc.source_pos = scanner_position(m),
              !.ws = 0]

\* Lines 287-291: a new empty spelling at the entry position, no value.
ReadEntry(m) ==
    [m EXCEPT !.sc.source = <<>>, !.sc.source_pos = scanner_position(m),
              !.sc.scanned = NoValue, !.ws = 0]

\* A check that takes the differing character as the new indent_char.
IndentChar_Follows(m, c, pos) ==
    IF c \in {SP, TAB}
    THEN IF m.sc.indent_char = 0 THEN [m EXCEPT !.sc.indent_char = c]
         ELSE IF m.sc.indent_char # c
         THEN [error(m, pos, MixedIndent) EXCEPT !.sc.indent_char = c]
         ELSE m
    ELSE m

\* Lines 327-333: spaces and tabs must not be mixed in indentation.
IndentChar(m, c, pos) ==
    IF c \in {SP, TAB}
    THEN IF m.sc.indent_char = 0 THEN [m EXCEPT !.sc.indent_char = c]
         ELSE IF m.sc.indent_char # c THEN error(m, pos, MixedIndent)
         ELSE m
    ELSE m

\* A column count that a line break does not reset.
CountColumn_KeepColumn(m, c, pos) ==
    IF c = NL THEN [m EXCEPT !.sc.checking_indent = TRUE]
    ELSE IF m.sc.checking_indent
    THEN [IndentChar(m, c, pos) EXCEPT !.sc.column = @ + 1]
    ELSE m

\* Lines 318-335: a line break starts the count, a space after it counts.
CountColumn(m, c, pos) ==
    IF c = NL THEN [m EXCEPT !.sc.checking_indent = TRUE, !.sc.column = 0]
    ELSE IF m.sc.checking_indent
    THEN [IndentChar(m, c, pos) EXCEPT !.sc.column = @ + 1]
    ELSE m

\* Line 338: only a line break is appended to the spelling.
ConsumeSpace(m, c) ==
    IF c = NL THEN scanner_consume(m, c)
    ELSE [scanner_consume(m, 0) EXCEPT !.ws = @ + 1]

\* Lines 315-340: the whitespace loop.  The result is [m, c].
RECURSIVE SkipSpaces(_, _, _)
SkipMore(g, pos) == SkipSpaces(g.m, g.c, pos)
SkipSpaces(m, c, pos) ==
    IF ~(isspace(c) /\ c # EOFc) THEN [m |-> m, c |-> c]
    ELSE SkipMore(scanner_getchar(ConsumeSpace(
             CountColumn([m EXCEPT !.sc.had_space_before = TRUE], c, pos), c)), pos)

\* A check that reports a new top right of the column.
Unindented_Reversed(m, pos) ==
    IF indents_length(m.sc) # 0 /\ indents_top(m.sc) > m.sc.column
    THEN Ret(error(m, pos, BadUnindent), "ERROR", "line")
    ELSE Ret(m, "UNINDENT", "line")

\* Lines 377-387: after the pop, the new top must not be left of the column.
Unindented(m, pos) ==
    IF indents_length(m.sc) # 0 /\ indents_top(m.sc) < m.sc.column
    THEN Ret(error(m, pos, BadUnindent), "ERROR", "line")
    ELSE Ret(m, "UNINDENT", "line")

\* An unindent that leaves the indent as it was.
Unindent_KeepsIndent(m, pos) == Unindented(indents_pop(m), pos)

\* Lines 370-373: pop the top level, the indent becomes the column.
Unindent(m, pos) ==
    Unindented([indents_pop(m) EXCEPT !.sc.indent = m.sc.column], pos)

\* Lines 347-393: what the line break is, m being the scanner after the
\* pushback.
LineToken(m, pos) ==
    IF Failed(m) THEN Ret(m, "ABORT", "line")
    ELSE IF m.sc.setting_indent
    THEN Ret([indents_push(m, m.sc.indent) EXCEPT
                 !.sc.indent = m.sc.column, !.sc.setting_indent = FALSE],
             "NEWLINE", "line")
    ELSE IF m.sc.column > m.sc.indent
    THEN Ret(indents_push([m EXCEPT !.sc.indent = m.sc.column], m.sc.column),
             "INDENT", "line")
    ELSE IF m.sc.column < indents_top(m.sc) THEN Unindent(m, pos)
    ELSE Ret(m, "NEWLINE", "line")

\* Lines 343-394: the first non-space after a line break.
IndentDecision(m, c, pos) ==
    LineToken([scanner_ungetchar(m, c) EXCEPT !.sc.checking_indent = FALSE], pos)

\* The end of a token: the character after it is pushed back and
\* had_space_after says whether it is a space.  g is [m, c].
TokenEnd(g) ==
    [scanner_ungetchar(g.m, g.c) EXCEPT !.sc.had_space_after = isspace(g.c)]

Normalize(m) == scanner_normalize(m, m.sc.source)

\* Lines 708-737: names.
RECURSIVE NameLoop(_, _)
NameMore(g) == NameLoop(g.m, g.c)
NameLoop(m, c) ==
    IF isalnum(c) \/ c = USCORE \/ utf8_is_first(c) \/ utf8_is_next(c)
    THEN NameMore(scanner_nextchar(m, c))
    ELSE [m |-> m, c |-> c]

NameValue(m, name) == [kind |-> "name", value |-> name, pos |-> m.sc.source_pos]

\* Lines 717-735: a name may open or close a block of the syntax.
NameKind(m, name) ==
    IF m.sc.syntax.present /\ syntax_is_block(m.sc.syntax, name)
    THEN Ret([m EXCEPT !.sc.block_close = BlockClosing(m.sc.syntax, name)],
             "OPEN", "token")
    ELSE IF m.sc.syntax.present /\ m.sc.block_close # NoName
                                /\ NameEqual(name, m.sc.block_close)
    THEN Ret([m EXCEPT !.sc.block_close = NoName], "CLOSE", "token")
    ELSE Ret(m, "NAME", "token")

\* n is what scanner_normalize gave: [m, name].
NameToken(n) ==
    IF Failed(n.m) THEN Ret(n.m, "ABORT", "token")
    ELSE NameKind([n.m EXCEPT !.sc.scanned = NameValue(n.m, n.name)], n.name)

ReadName(m, c0) == NameToken(Normalize(TokenEnd(NameLoop(m, c0))))

\* Lines 264-279: scanner_character, for 7-bit text (one byte per scalar).
utf8_code(text)   == IF text = <<>> THEN 0 ELSE Head(text)
utf8_length(text) == Len(text)

\* A character constant of any length that is not reported.
scanner_character_Quiet(m, text, pos) ==
    [m EXCEPT !.sc.scanned = [kind |-> "character", value |-> utf8_code(text), pos |-> pos]]

scanner_character(m, text, pos) ==
    [(IF utf8_length(text) # 1 THEN error(m, pos, NotOneChar) ELSE m) EXCEPT
        !.sc.scanned = [kind |-> "character", value |-> utf8_code(text), pos |-> pos]]

\* Lines 763-772: the token of a closed text.
TextToken(m, eos, text, pos) ==
    IF Failed(m) THEN Ret(m, "ABORT", "token")
    ELSE IF eos = DQUOTE
    THEN Ret([m EXCEPT !.sc.scanned = [kind |-> "text", value |-> text, pos |-> pos]],
             "TEXT", "token")
    ELSE Ret(scanner_character(m, text, pos), "CHARACTER", "token")

\* Lines 740-782: texts and characters.  c0 is the byte after the opening
\* delimiter (or what followed the previous byte of the text).
RECURSIVE TextLoop(_, _, _, _, _)
TextMore(g, eos, text, pos) == TextLoop(g.m, g.c, eos, text, pos)

\* A text that ends at its first delimiter, doubled or not.
AfterDelimiter_EndsText(g, eos, text, pos) == TextToken(TokenEnd(g), eos, text, pos)

\* Lines 756-777: after a delimiter, g being [m, c] with the next byte: a
\* doubled delimiter stands for itself, anything else ends the text.
AfterDelimiter(g, eos, text, pos) ==
    IF g.c # eos THEN TextToken(TokenEnd(g), eos, text, pos)
    ELSE TextMore(scanner_nextchar(g.m, g.c), eos, Append(text, g.c), pos)

TextChar(m, c, eos, text, pos) ==
    IF c = eos THEN AfterDelimiter(scanner_nextchar(m, c), eos, text, pos)
    ELSE TextMore(scanner_nextchar(m, c), eos, Append(text, c), pos)

\* An end of input inside a text that is not reported.
TextLoop_Silent(m, c0, eos, text, pos) ==
    TextChar(m, IF c0 = EOFc THEN eos ELSE c0, eos, text, pos)

\* Lines 748-753: end of input inside a text stands for the delimiter.
TextLoop(m, c0, eos, text, pos) ==
    IF c0 = EOFc
    THEN TextChar([error(m, pos, EofInText) EXCEPT !.sc.had_space_after = FALSE],
                  eos, eos, text, pos)
    ELSE TextChar(m, c0, eos, text, pos)

ReadText(m, c, pos) == TextMore(scanner_nextchar(m, c), c, <<>>, pos)

\* Lines 785-822: other symbols.  The loops give [m, c, tok].
RECURSIVE SymbolLoopSyntax(_, _)
\* A step that leaves block_close as it is when it returns CLOSE.
SymbolStep_KeepsClosing(g) ==
    IF syntax_is_block(g.m.sc.syntax, g.m.sc.source)
    THEN [m |-> [g.m EXCEPT !.sc.block_close =
                     BlockClosing(g.m.sc.syntax, g.m.sc.source)],
          c |-> g.c, tok |-> "OPEN"]
    ELSE IF g.m.sc.block_close # NoName
            /\ NameEqual(g.m.sc.source, g.m.sc.block_close)
    THEN [m |-> g.m, c |-> g.c, tok |-> "CLOSE"]
    ELSE SymbolLoopSyntax(g.m, g.c)

\* Lines 792-805: the spelling so far may open or close a block.
SymbolStep(g) ==
    IF syntax_is_block(g.m.sc.syntax, g.m.sc.source)
    THEN [m |-> [g.m EXCEPT !.sc.block_close =
                     BlockClosing(g.m.sc.syntax, g.m.sc.source)],
          c |-> g.c, tok |-> "OPEN"]
    ELSE IF g.m.sc.block_close # NoName
            /\ NameEqual(g.m.sc.source, g.m.sc.block_close)
    THEN [m |-> [g.m EXCEPT !.sc.block_close = NoName], c |-> g.c, tok |-> "CLOSE"]
    ELSE SymbolLoopSyntax(g.m, g.c)

SymbolLoopSyntax(m, c) ==
    IF ispunct(c) /\ c # SQUOTE /\ c # DQUOTE /\ c # EOFc
       /\ syntax_is_operator(m.sc.syntax, m.sc.source)
    THEN SymbolStep(scanner_nextchar(m, c))
    ELSE [m |-> m, c |-> c, tok |-> "SYMBOL"]

RECURSIVE SymbolLoopDiscovery(_, _)
SymbolMore(g) == SymbolLoopDiscovery(g.m, g.c)
SymbolLoopDiscovery(m, c) ==
    IF ispunct(c) /\ c # SQUOTE /\ c # DQUOTE /\ c # EOFc
    THEN SymbolMore(scanner_nextchar(m, c))
    ELSE [m |-> m, c |-> c, tok |-> "SYMBOL"]

\* Lines 815-822: n is what scanner_normalize gave.
SymbolToken(n, token) ==
    IF Failed(n.m) THEN Ret(n.m, "ABORT", "token")
    ELSE Ret([n.m EXCEPT !.sc.scanned = NameValue(n.m, n.name)], token, "token")

SymbolEnd(l) == SymbolToken(Normalize(TokenEnd(l)), l.tok)

ReadSymbol(m, c0) ==
    SymbolEnd(IF m.sc.syntax.present THEN SymbolLoopSyntax(m, c0)
              ELSE SymbolLoopDiscovery(m, c0))

-----------------------------------------------------------------------------
(* Unsigned 64-bit values (unsigned long long) as 8 bytes, least           *)
(* significant first: arithmetic is modulo 2^64.                           *)

U64Zero == <<0, 0, 0, 0, 0, 0, 0, 0>>
U64One  == <<1, 0, 0, 0, 0, 0, 0, 0>>

\* limbs * mul + carry, the carry out of the last byte dropped.
RECURSIVE MulAddLimbs(_, _, _)
MulAddLimbs(limbs, mul, carry) ==
    IF limbs = <<>> THEN <<>>
    ELSE LET x == Head(limbs) * mul + carry
         IN  <<x % 256>> \o MulAddLimbs(Tail(limbs), mul, x \div 256)

RECURSIVE AddLimbs(_, _, _)
AddLimbs(a, b, carry) ==
    IF a = <<>> THEN <<>>
    ELSE LET x == Head(a) + Head(b) + carry
         IN  <<x % 256>> \o AddLimbs(Tail(a), Tail(b), x \div 256)

U64FromSmall(n) == MulAddLimbs(U64Zero, 0, n)

\* a * b: the sum of a * b[i] * 256^(i-1).
RECURSIVE MulLimbs(_, _)
MulLimbs(a, b) ==
    IF b = <<>> THEN [i \in 1..Len(a) |-> 0]
    ELSE IF a = <<>> THEN <<>>
    ELSE AddLimbs(MulAddLimbs(a, Head(b), 0),
                  <<0>> \o MulLimbs(Front(a), Tail(b)), 0)

U64Mul(a, b) == MulLimbs(a, b)

\* The value as a number of the model, for values below 2^31.
U64Small(v) == v[5] = 0 /\ v[6] = 0 /\ v[7] = 0 /\ v[8] = 0 /\ v[4] < 128
U64Value(v) == v[1] + 256 * v[2] + 65536 * v[3] + 16777216 * v[4]

\* (unsigned) natural_value: the low 32 bits.  The code only compares the
\* base with 2, 36 and 64 and with digit values (at most 255), so every
\* value above 255 is represented by 256.
BaseLimit == 256
LowWord(v) == IF v[2] = 0 /\ v[3] = 0 /\ v[4] = 0 THEN v[1] ELSE BaseLimit

\* Bitwise or of two naturals.
RECURSIVE BitOr(_, _)
BitOr(a, b) ==
    IF a = 0 THEN b ELSE IF b = 0 THEN a
    ELSE (IF a % 2 = 1 \/ b % 2 = 1 THEN 1 ELSE 0) + 2 * BitOr(a \div 2, b \div 2)

RECURSIVE Pow2(_)
Pow2(n) == IF n = 0 THEN 1 ELSE 2 * Pow2(n - 1)

-----------------------------------------------------------------------------
(* scanner_read: numbers and blobs (lines 418-705)                         *)

NoDigit == 255

\* base_value[c] and base64_value[c].  c = EOF indexes the byte before the
\* table: a byte of whatever object the build placed there (m.oob), read
\* out of bounds.
DigitValue(table, c, mem) ==
    IF c = EOFc THEN mem[table]
    ELSE IF table = "base_value"
    THEN IF isdigit(c) THEN c - Char0
         ELSE IF isupper(c) THEN c - UpperA + 10
         ELSE IF islower(c) THEN c - LowerA + 10
         ELSE NoDigit
    ELSE IF isupper(c) THEN c - UpperA
         ELSE IF islower(c) THEN c - LowerA + 26
         ELSE IF isdigit(c) THEN c - Char0 + 52
         ELSE IF c = PLUS THEN 62
         ELSE IF c = SLASH THEN 63
         ELSE NoDigit

UglyDigits   == "Two '_' characters in a row look ugly"
UglyFraction == "Two _ characters look really ugly"
BadBase      == "The base is not valid, not in 2..36"
BadBlobBase  == "Base is invalid for a blob"
HangAtEof    == "hang: EOF taken for a digit"

\* The locals of the number branch (lines 420-428, 458).
NumberLocals(isblob) ==
    [ base |-> 10, blob_base |-> 16, natural_value |-> U64Zero,
      floating_point |-> FALSE, isblob |-> isblob, blob |-> <<>>,
      blob_chunk |-> 0, blob_bits |-> 0, blob_digbits |-> 4,
      blob_maxbits |-> 8, digit_value |-> "base_value" ]

\* blob_chunk is kept modulo 2^24: only its low 24 bits are ever stored.
ChunkMod == 16777216
ChunkBytes(L) ==
    IF L.blob_maxbits = 8 THEN <<L.blob_chunk % 256>>
    ELSE << (L.blob_chunk \div 65536) % 256, (L.blob_chunk \div 256) % 256,
            L.blob_chunk % 256 >>

\* Lines 472-486: a full chunk is appended to the blob.
BlobFlush(L) ==
    IF L.blob_bits >= L.blob_maxbits THEN [L EXCEPT !.blob = @ \o ChunkBytes(L)]
    ELSE L

\* Lines 467-488: record one blob digit.
BlobDigit(L, dv) ==
    BlobFlush([L EXCEPT
                 !.blob_chunk = BitOr((L.blob_chunk * Pow2(L.blob_digbits)) % ChunkMod, dv),
                 !.blob_bits  = @ + L.blob_digbits])

\* Lines 499-500: whitespace between the digits of a blob.
RECURSIVE BlobSpaces(_, _)
BlobSpacesMore(g) == BlobSpaces(g.m, g.c)
BlobSpaces(m, c) ==
    IF c # EOFc /\ isspace(c) THEN BlobSpacesMore(scanner_nextchar(m, 0))
    ELSE [m |-> m, c |-> c]

\* Lines 493-494, 619-620: a second '_' is reported.  h is [m, c].
SecondUnderscore(h, pos, msg) ==
    IF h.c = USCORE THEN [m |-> error(h.m, pos, msg), c |-> h.c] ELSE h

\* Lines 490-495, 616-621: a single '_' after a digit is skipped.
Underscore(g, pos, msg) ==
    IF g.c = USCORE THEN SecondUnderscore(scanner_nextchar(g.m, g.c), pos, msg)
    ELSE g

\* Lines 496-501.
AfterDigit(g, isblob) == IF isblob THEN BlobSpaces(g.m, g.c) ELSE g

\* Lines 466-488.
Accumulate(L, dv) ==
    IF L.isblob
    THEN BlobDigit([L EXCEPT !.natural_value = MulAddLimbs(@, L.base, dv)], dv)
    ELSE [L EXCEPT !.natural_value = MulAddLimbs(@, L.base, dv)]

\* Lines 463-503: the digits.  The result is [m, L, c].  A loop that takes
\* EOF for a digit reads EOF again for ever.
RECURSIVE DigitLoop(_, _, _, _)
DigitMore(g, L, pos) == DigitLoop(g.m, L, g.c, pos)
Digit_(m, L, c, pos, dv) ==
    IF ~(dv < L.base \/ (L.isblob /\ dv < L.blob_base))
    THEN [m |-> m, L |-> L, c |-> c]
    ELSE IF c = EOFc
    THEN [m |-> Fail(m, HangAtEof), L |-> L, c |-> c]
    ELSE DigitMore(AfterDigit(Underscore(scanner_nextchar(m, c), pos, UglyDigits),
                              L.isblob),
                   Accumulate(L, dv), pos)
DigitLoop(m, L, c, pos) == Digit_(m, L, c, pos, DigitValue(L.digit_value, c, m.oob))

\* Lines 519-537: the base of a blob.
BlobBase(m, L, base, pos) ==
    IF base = 2  THEN [m |-> m, L |-> [L EXCEPT !.blob_digbits = 1]]
    ELSE IF base = 4  THEN [m |-> m, L |-> [L EXCEPT !.blob_digbits = 2]]
    ELSE IF base = 8
    THEN [m |-> m, L |-> [L EXCEPT !.blob_digbits = 3, !.blob_maxbits = 24]]
    ELSE IF base = 16 THEN [m |-> m, L |-> [L EXCEPT !.blob_digbits = 4]]
    ELSE [m |-> error(m, pos, BadBlobBase), L |-> L]

\* Lines 509-537, L holding the new base.
BaseKind(m, L, pos) ==
    IF L.base = 64 THEN [m |-> m, L |-> [L EXCEPT !.digit_value = "base64_value"]]
    ELSE IF L.base < 2 \/ L.base > 36
    THEN [m |-> error(m, pos, BadBase), L |-> [L EXCEPT !.base = 36]]
    ELSE IF L.isblob
    THEN BlobBase(m, [L EXCEPT !.blob = <<>>, !.blob_bits = 0, !.blob_chunk = 0],
                  L.base, pos)
    ELSE [m |-> m, L |-> L]

\* Lines 506-541: a '#' after the first run of digits names the base.
SelectBase(m, L, pos) ==
    BaseKind(m, [L EXCEPT !.base = LowWord(L.natural_value),
                          !.blob_base = LowWord(L.natural_value)], pos)

\* Lines 538-540: past the '#', the digits of the based number.
BasedDigits(b, c, pos) ==
    DigitMore(scanner_nextchar(b.m, c), [b.L EXCEPT !.natural_value = U64Zero], pos)

\* Lines 506-545, d being what the first run of digits gave.
AfterDigits(d, pos) ==
    IF Failed(d.m) \/ d.c # HASH THEN d
    ELSE BasedDigits(SelectBase(d.m, d.L, pos), d.c, pos)

\* Lines 461-546: the do-while loop.  The result is [m, L, c].
IntegralPart(m, L, c, pos) == AfterDigits(DigitLoop(m, L, c, pos), pos)

\* Lines 562-584: pad and flush what is left of the last chunk.
RECURSIVE PadChunk(_)
PadChunk(L) ==
    IF L.blob_bits < L.blob_maxbits
    THEN PadChunk([L EXCEPT !.blob_chunk = (@ * Pow2(L.blob_digbits)) % ChunkMod,
                            !.blob_bits  = @ + L.blob_digbits])
    ELSE L

LastChunk(P) == [P EXCEPT !.blob = @ \o ChunkBytes(P)]
BlobRest(L) == IF L.blob_bits # 0 THEN LastChunk(PadChunk(L)) ELSE L

\* Lines 553-560: an '=' of base 64, then the closing '$' if there is one.
BlobPadding(m, L, c) ==
    IF L.blob_base = 64 /\ c = EQUALS THEN scanner_nextchar(m, c)
    ELSE [m |-> m, c |-> c]
BlobClose(g) ==
    IF g.c = DOLLAR THEN scanner_consume(g.m, g.c) ELSE scanner_ungetchar(g.m, g.c)

BlobToken(m, L, pos) ==
    IF Failed(m) THEN Ret(m, "ABORT", "token")
    ELSE Ret([m EXCEPT !.sc.scanned = [kind |-> "blob", value |-> L.blob, pos |-> pos]],
             "BLOB", "token")

\* Lines 550-588: the end of a blob.
EndBlob(m, L, c0, pos) == BlobToken(BlobClose(BlobPadding(m, L, c0)), BlobRest(L), pos)

\* Lines 611-622: the digits of the fraction.  The double itself is not
\* modelled; the result is [m, c].
RECURSIVE FractionLoop(_, _, _, _)
FractionMore(g, L, pos) == FractionLoop(g.m, L, g.c, pos)
FractionLoop(m, L, c, pos) ==
    IF ~(DigitValue(L.digit_value, c, m.oob) < L.base) THEN [m |-> m, c |-> c]
    ELSE IF c = EOFc THEN [m |-> Fail(m, HangAtEof), c |-> c]
    ELSE FractionMore(Underscore(scanner_nextchar(m, c), pos, UglyFraction), L, pos)

\* An unsigned of 32 bits as two halves of 16 bits, <<high, low>>.
Half == 65536
Unsigned(n) == <<n \div Half, n % Half>>
UnsignedNot(u) == <<Half - 1 - u[1], Half - 1 - u[2]>>
\* (int) u < 0: the top bit is set.
UnsignedIsNegative(u) == u[1] >= Half \div 2
\* The value, for an unsigned below 2^31.
UnsignedValue(u) == u[1] * Half + u[2]

\* unsigned exponent: 10 * exponent + digit and exponent >> 1, modulo 2^32.
TimesTenPlus(u, d) ==
    <<(10 * u[1] + (10 * u[2] + d) \div Half) % Half, (10 * u[2] + d) % Half>>
HalveUnsigned(u) == <<u[1] \div 2, u[2] \div 2 + (u[1] % 2) * (Half \div 2)>>

\* Lines 651-657: the digits of the exponent, always decimal and always
\* looked up in base_value.  The result is [m, c, exponent].
RECURSIVE ExponentLoop(_, _, _)
ExponentMore(g, exponent) == ExponentLoop(g.m, g.c, exponent)
ExponentUnderscore(g) == IF g.c = USCORE THEN scanner_nextchar(g.m, g.c) ELSE g
ExponentDigit(m, c, exponent, dv) ==
    IF ~(dv < 10) THEN [m |-> m, c |-> c, exponent |-> exponent]
    ELSE IF c = EOFc THEN [m |-> Fail(m, HangAtEof), c |-> c, exponent |-> exponent]
    ELSE ExponentMore(ExponentUnderscore(scanner_nextchar(m, c)),
                      TimesTenPlus(exponent, dv))
ExponentLoop(m, c, exponent) ==
    ExponentDigit(m, c, exponent, DigitValue("base_value", c, m.oob))

\* Lines 680-688: base^exponent by squaring, modulo 2^64.
RECURSIVE PowerLoop(_, _, _)
PowerLoop(exponent, exponent_value, multiplier) ==
    IF exponent = <<0, 0>> THEN exponent_value
    ELSE PowerLoop(HalveUnsigned(exponent),
                   IF exponent[2] % 2 = 1 THEN U64Mul(exponent_value, multiplier)
                   ELSE exponent_value,
                   U64Mul(multiplier, multiplier))

\* Lines 660-690: an integer is multiplied by base^exponent; e is what the
\* exponent's digits gave.
Scaled(e, L) ==
    [m |-> e.m, c |-> e.c,
     L |-> IF L.floating_point THEN L
           ELSE [L EXCEPT !.natural_value =
                    U64Mul(@, PowerLoop(e.exponent, U64One, U64FromSmall(L.base)))]]

ExponentDigits(g, L) == Scaled(ExponentLoop(g.m, g.c, <<0, 0>>), L)

\* Lines 639-648: the sign; a '-' makes the number a real.
ExponentSign(g, L) ==
    ExponentDigits(IF g.c = PLUS \/ g.c = MINUS THEN scanner_nextchar(g.m, g.c) ELSE g,
                   IF g.c = MINUS THEN [L EXCEPT !.floating_point = TRUE] ELSE L)

\* Lines 631-691: the exponent.  The result is [m, L, c].
Exponent(m, L, c0) ==
    IF c0 # LowerE /\ c0 # UpperE THEN [m |-> m, L |-> L, c |-> c0]
    ELSE ExponentSign(scanner_nextchar(m, c0), L)

\* Lines 696-704.
NumberValue(m, L, pos) ==
    IF Failed(m) THEN Ret(m, "ABORT", "token")
    ELSE IF L.floating_point
    THEN Ret([m EXCEPT !.sc.scanned = [kind |-> "real", pos |-> pos]], "REAL", "token")
    ELSE Ret([m EXCEPT !.sc.scanned =
                 [kind |-> "natural", value |-> L.natural_value, pos |-> pos]],
             "INTEGER", "token")

\* Lines 694-704, x being what the exponent gave.
NumberToken(x, pos) ==
    IF Failed(x.m) THEN Ret(x.m, "HANG", "token")
    ELSE NumberValue(TokenEnd(x), x.L, pos)

\* Lines 627-628: a second '#' ends a based number.
SecondHash(m, c) == IF c = HASH THEN scanner_nextchar(m, c) ELSE [m |-> m, c |-> c]
ExponentAfter(g, L) == Exponent(g.m, L, g.c)

\* Lines 626-704: second '#', exponent and the token.
EndNumber(m, L, c0, pos) == NumberToken(ExponentAfter(SecondHash(m, c0), L), pos)

\* Lines 597-604: INTEGER, the '.' and the character after it pushed back.
DotPushedBack(m, L, pos) ==
    IF Failed(m) THEN Ret(m, "ABORT", "token")
    ELSE Ret([m EXCEPT !.sc.had_space_after = FALSE,
                       !.sc.scanned = [kind |-> "natural",
                                       value |-> L.natural_value, pos |-> pos]],
             "INTEGER", "token")

\* Lines 608-623, f being what the fraction's digits gave.
Fraction(f, L, pos) ==
    IF Failed(f.m) THEN Ret(f.m, "HANG", "token")
    ELSE EndNumber(f.m, [L EXCEPT !.floating_point = TRUE], f.c, pos)

\* Lines 593-623, g being [m, mantissa_digit].
Mantissa(g, L, c, pos) ==
    IF DigitValue(L.digit_value, g.c, g.m.oob) >= L.base
    THEN DotPushedBack(scanner_ungetchar(scanner_ungetchar(g.m, g.c), c), L, pos)
    ELSE Fraction(FractionLoop(g.m, L, g.c, pos), L, pos)

\* Lines 591-624: a '.' after the integral part.
AfterDot(m, L, c, pos) == Mantissa(scanner_nextchar(m, c), L, c, pos)

\* Lines 547-704, i being what the integral part gave.
NumberRest(i, isblob, pos) ==
    IF Failed(i.m) THEN Ret(i.m, "HANG", "token")
    ELSE IF isblob THEN EndBlob(i.m, i.L, i.c, pos)
    ELSE IF i.c = DOT THEN AfterDot(i.m, i.L, i.c, pos)
    ELSE EndNumber(i.m, i.L, i.c, pos)

\* Lines 418-705.
ReadNumber(m, c0, isblob, pos) ==
    NumberRest(IntegralPart(m, NumberLocals(isblob), c0, pos), isblob, pos)

\* Lines 418-822: the token that starts with c, at position pos.
Token(m, c, pos) ==
    IF isdigit(c) THEN ReadNumber(m, c, FALSE, pos)
    ELSE IF utf8_isalpha(c) THEN ReadName(m, c)
    ELSE IF c = DQUOTE \/ c = SQUOTE THEN ReadText(m, c, pos)
    ELSE ReadSymbol(m, c)

\* Lines 411-415: a '$' starts a blob.
Blob(g, pos) == ReadNumber(g.m, g.c, TRUE, pos)

\* Lines 404-415: the spelling is cleared of whitespace, the token's
\* position is that of its first character.
TokenStart(m, c) ==
    IF c = DOLLAR THEN Blob(scanner_nextchar(m, c), scanner_position(m))
    ELSE Token(m, c, scanner_position(m))

\* Lines 343-401, w being what the whitespace loop gave.
AfterSpaces(w, pos) ==
    IF w.m.sc.checking_indent THEN IndentDecision(w.m, w.c, pos)
    ELSE IF ~w.m.sc.reader THEN Ret(w.m, "EOF", "eof")
    ELSE TokenStart([w.m EXCEPT !.sc.source = <<>>], w.c)

\* Lines 311-340.
Spaces_(g, pos) ==
    AfterSpaces(SkipSpaces([g.m EXCEPT !.sc.had_space_before = FALSE], g.c, pos), pos)

\* A drain that returns UNINDENT and leaves the level on the stack.
Drain_KeepsLevel(m) ==
    IF indents_length(m.sc) > 0 /\ indents_top(m.sc) > m.sc.indent
    THEN Ret(m, "UNINDENT", "drain")
    ELSE Spaces_(scanner_getchar(m), m.sc.source_pos)

\* Lines 300-311: the unindent drain, or the first character.
Drain(m) ==
    IF indents_length(m.sc) > 0 /\ indents_top(m.sc) > m.sc.indent
    THEN Ret(indents_pop(m), "UNINDENT", "drain")
    ELSE Spaces_(scanner_getchar(m), m.sc.source_pos)

\* Lines 294-301.
Opened(m) ==
    IF ~m.sc.reader THEN Ret(m, "EOF", "closed")
    ELSE Drain([m EXCEPT !.sc.had_space_before = TRUE])

\* scanner_read: the result is [m, tok, path], path naming where the call
\* returned: "closed" (no reader), "drain", "line" (the indent decision),
\* "eof" (end of input after spaces) or "token".
scanner_read(m0) == Opened(ReadEntry(m0))

-----------------------------------------------------------------------------
(* scanner_skip.  A skip works on K = [m, comment, matched, c, skip]:      *)
(* matched is match - eoc, c the character last read.                      *)

\* *match: a byte of the closing name, or, once the whole name is matched,
\* the byte that follows the name's data in memory (name_handler allocates
\* sizeof(name_t) + size bytes and copies size bytes: no terminator).
MatchByte(closing, after, matched) ==
    IF matched < Len(closing) THEN closing[matched + 1] ELSE after

\* memcmp(eoc, end - max + i, match - eoc) == 0, on bytes of the comment.
SameBytes(closing, comment, start, n) ==
    \A k \in 1..n : closing[k] = comment[start + k]

\* The backtrack loop: the new match - eoc.
RECURSIVE Backtrack(_, _, _, _, _)
Backtrack(closing, comment, max, i, matched) ==
    IF i >= max THEN matched
    ELSE IF SameBytes(closing, comment, Len(comment) - max + i, matched) THEN matched
    ELSE Backtrack(closing, comment, max, i + 1, matched - 1)

\* The comparison reads bytes before the comment's data when some of the
\* matched bytes were skipped and never appended.
Backtracked(K, closing) ==
    IF Len(K.comment) < K.matched
    THEN [K EXCEPT !.m = Fail(K.m, "undefined: memcmp before the comment")]
    ELSE [K EXCEPT !.matched = Backtrack(closing, K.comment, K.matched, 0, K.matched)]

\* New line: start counting indentation; otherwise spaces of the
\* indentation are skipped while column < indent.
SkipIndent(K) ==
    IF K.c = NL
    THEN [K EXCEPT !.m.sc.checking_indent = TRUE, !.m.sc.column = 0, !.skip = FALSE]
    ELSE IF K.m.sc.checking_indent
    THEN IF isspace(K.c)
         THEN [K EXCEPT !.skip = K.m.sc.column < K.m.sc.indent]
         ELSE [K EXCEPT !.m.sc.checking_indent = FALSE, !.skip = FALSE]
    ELSE [K EXCEPT !.skip = FALSE]

SkipMatch(K, closing, after) ==
    IF K.c = MatchByte(closing, after, K.matched)
    THEN [K EXCEPT !.matched = @ + 1]
    ELSE Backtracked(K, closing)

\* char ch = (char) c, appended unless skipped: EOF is appended as 0xFF.
SkipAppend(K) ==
    IF K.skip \/ Failed(K.m) THEN K
    ELSE [K EXCEPT !.comment = Append(@, IF K.c = EOFc THEN 255 ELSE K.c)]

SkipNext(K, g) == [K EXCEPT !.m = g.m, !.c = g.c]

RECURSIVE SkipLoop(_, _, _)
SkipBody(K, closing, after) ==
    SkipLoop(SkipAppend(SkipMatch(SkipIndent(K), closing, after)), closing, after)

SkipLoop(K, closing, after) ==
    IF Failed(K.m) \/ MatchByte(closing, after, K.matched) = 0 \/ K.c = EOFc THEN K
    ELSE SkipBody(SkipNext(K, scanner_nextchar(K.m, K.c)), closing, after)

\* Strip the termination from the comment being returned.
SkipEnd(K) ==
    [m |-> K.m, comment |-> Take(K.comment, Len(K.comment) - K.matched),
     matched |-> K.matched]

\* Clear source and scanned value if any.
SkipEntry(m) ==
    [m EXCEPT !.sc.source = <<>>, !.sc.source_pos = scanner_position(m),
              !.sc.scanned = NoValue]

\* scanner_skip(s, closing): the result is [m, comment, matched].
scanner_skip(m, closing, after) ==
    SkipEnd(SkipLoop([m |-> SkipEntry(m), comment |-> <<>>, matched |-> 0,
                      c |-> 0, skip |-> FALSE],
                     closing, after))

\* scanner_open_parenthese: the result is [m, result].
scanner_open_parenthese(m) ==
    [m |-> [m EXCEPT !.sc.setting_indent = TRUE],
     result |-> IF m.sc.setting_indent THEN UnsignedNot(Unsigned(m.sc.indent))
                ELSE Unsigned(m.sc.indent)]

\* The indent that scanner_close_parenthese restores.
OldIndent(old_indent) ==
    UnsignedValue(IF UnsignedIsNegative(old_indent) THEN UnsignedNot(old_indent)
                  ELSE old_indent)

\* A close that pops whenever the indent is the top of the stack, also when
\* no line break was read since the open.
ClosePop_Always(m) ==
    IF m.sc.indent = indents_top(m.sc) THEN indents_pop(m) ELSE m

\* if (!s->setting_indent) if (s->indent == indents_top(s->indents)) pop.
ClosePop(m) ==
    IF ~m.sc.setting_indent /\ m.sc.indent = indents_top(m.sc) THEN indents_pop(m)
    ELSE m

\* scanner_close_parenthese
scanner_close_parenthese(m, old_indent) ==
    [ClosePop([m EXCEPT !.sc.indent = OldIndent(old_indent)])
        EXCEPT !.sc.setting_indent = UnsignedIsNegative(old_indent)]

-----------------------------------------------------------------------------
(* The state machine                                                       *)

MaxLen   == 3       \* longest input of the byte-level family
MaxCalls == 11      \* scanner_read calls made on one scanner
MaxLines == 3       \* lines of a layout input after the first
MaxCol   == 3       \* deepest column of a layout input
MaxEofs  == 2       \* EOF tokens after which the caller stops reading

\* digit_value[c] with c = EOF reads the byte before the table: a byte no
\* object of the scanner owns.  Two outcomes stand for what a build can
\* produce: a byte that is no digit of any base, and a byte that is a
\* digit of every base.  Each lookup of one call sees the same byte.
OobBytes   == {NoDigit, 0}
OobChoices == [base_value : OobBytes, base64_value : OobBytes]

HangReasons == {HangAtEof}

\* How a call ended: its token, or no return at all.
FinalTok(r) == IF r.m.fail = "" THEN r.tok
               ELSE IF r.m.fail \in HangReasons THEN "HANG" ELSE "ABORT"
FinalRun(r) == IF r.m.fail = "" THEN "ok"
               ELSE IF r.m.fail \in HangReasons THEN "hung" ELSE "aborted"

\* What the history keeps of one call: the token, where the call returned,
\* the spelling and the scanned value at return, the whitespace bytes
\* consumed outside the spelling, the bytes taken from the reader, the
\* position steps, the messages reported, the indent stack, the indent,
\* setting_indent and the reader before the call, the reader's invocations
\* during it, the column and the first pending character after it.
CallRecord(r, before, in, pos, errs) ==
    [ call     |-> "read",
      tok      |-> FinalTok(r),
      path     |-> r.path,
      spelling |-> r.m.sc.source,
      value    |-> r.m.sc.scanned,
      ws       |-> r.m.ws,
      taken    |-> Len(in) - Len(r.m.input),
      steps    |-> r.m.position - pos,
      msgs     |-> SubSeq(r.m.errors, Len(errs) + 1, Len(r.m.errors)),
      levels   |-> before.indents,
      indent   |-> before.indent,
      setting  |-> before.setting_indent,
      reader   |-> before.reader,
      invoked  |-> r.m.invoked,
      pushed   |-> r.m.pushed,
      column   |-> r.m.sc.column,
      pending  |-> r.m.sc.pending_char,
      why      |-> r.m.fail ]

\* error.c before any errors_save: no buffer (errors == NULL).
NoSink == [heap |-> <<>>, errors |-> 0, held |-> <<>>, marks |-> <<>>,
           shown |-> <<>>, reports |-> 0, new_refcount |-> 0, last |-> [op |-> "none"],
           undefined |-> FALSE]

\* No call of name_is_valid or scanner_normalize on its own yet.
NoOutput == [did |-> {}, valid |-> FALSE, normal |-> <<>>, again |-> <<>>,
             saved |-> <<>>]

\* scanner_new, then scanner_open_stream on the input.
InitWith(inputs, syntaxes) ==
    /\ given \in inputs
    /\ stream = given
    /\ \E syn \in syntaxes : s = OpenStream(NewScanner(syn))
    /\ position = 0
    /\ errors = <<>>
    /\ tok = "NONE"
    /\ run = "ok"
    /\ hist = <<>>
    /\ out = NoOutput
    /\ sink = NoSink

Toks == [i \in 1..Len(hist) |-> hist[i].tok]
CountTok(t) == Cardinality({i \in 1..Len(hist) : hist[i].tok = t})

\* The scanner, the stream, the registry and the sink after a call that
\* ended as r says.
Called(r) ==
    /\ s' = r.m.sc
    /\ stream' = r.m.input
    /\ position' = r.m.position
    /\ errors' = r.m.errors
    /\ tok' = FinalTok(r)
    /\ run' = FinalRun(r)
    /\ hist' = Append(hist, CallRecord(r, s, stream, position, errors))

\* One call of scanner_read.  The caller reads until it has seen MaxEofs
\* EOF tokens, or the call does not return.
Read ==
    /\ run = "ok"
    /\ Len(hist) < MaxCalls
    /\ CountTok("EOF") < MaxEofs
    /\ \E mem \in OobChoices :
         Called(scanner_read(Machine(s, stream, position, errors, mem)))
    /\ UNCHANGED <<given, out, sink>>

\* A syntax table with the operators "..", "(" and ")" and the block ( ).
LPAREN == 40
RPAREN == 41
DemoSyntax == Syntax({<<DOT, DOT>>, <<LPAREN>>, <<RPAREN>>}, {<< <<LPAREN>>, <<RPAREN>> >>})

Lower(n) == LowerA + n
Upper(n) == UpperA + n
Digit(n) == Char0 + n
Letter == Lower(0)

\* Byte-level inputs: every sequence of at most MaxLen bytes over a small
\* alphabet.
ByteAlphabet == {SOH, NL, SP, Letter, Digit(1), DOT, DQUOTE}
ByteInputs == SeqsUpTo(ByteAlphabet, MaxLen)

\* Layout inputs: an optional first token, then up to MaxLines lines, each
\* a line break, 0..MaxCol spaces and a one-letter name, then an optional
\* final line break.
Spaces(n) == [i \in 1..n |-> SP]
RECURSIVE Lines(_)
Lines(cols) == IF cols = <<>> THEN <<>>
               ELSE <<NL>> \o Spaces(Head(cols)) \o <<Letter>> \o Lines(Tail(cols))
LayoutInputs ==
    { first \o Lines(cols) \o last :
        first \in {<<>>, <<Letter>>},
        cols \in SeqsUpTo(0..MaxCol, MaxLines),
        last \in {<<>>, <<NL>>} }

\* Scenario inputs: the sources the specification gives as examples, every
\* contiguous part of them, and each followed by a space or a '#'.
BlankThenFoo == <<SP, SP, NL, SP, SP, Lower(5), Lower(14), Lower(14), NL>>
OneDotDotThree == <<Digit(1), DOT, DOT, Digit(3)>>
HexFF == <<Digit(1), Digit(6), HASH, Upper(5), Upper(5)>>
Binary256 == <<Digit(2), HASH, Digit(1), USCORE, Digit(0), Digit(0), Digit(0), Digit(0),
               USCORE, Digit(0), Digit(0), Digit(0), Digit(0)>>
DotInBlock == <<NL, SP, Digit(1), DOT, Letter, NL, SP, SP, Letter, NL, Letter>>
Scenarios == {BlankThenFoo, OneDotDotThree, HexFF, Binary256, DotInBlock}
Parts(q) == {SubSeq(q, i, j) : i \in 1..Len(q), j \in 1..Len(q)}
ScenarioInputs ==
    UNION {Parts(q) \cup {q \o <<SP>>, q \o <<HASH>>} : q \in Scenarios}

\* Blob inputs: '$', a base and '#', then digits, with nothing, a '_' or a
\* space between two digits, then '$'.
MaxBlobDigits == 4
RECURSIVE Separated(_, _)
Separated(digits, sep) ==
    IF Len(digits) <= 1 THEN digits
    ELSE <<Head(digits)>> \o sep \o Separated(Tail(digits), sep)
Separators == {<<>>, <<USCORE>>, <<SP>>}
BlobOf(base, body) == <<DOLLAR>> \o base \o <<HASH>> \o body \o <<DOLLAR>>
Sixteen == <<Digit(1), Digit(6)>>
HexAlphabet == {Digit(1), Upper(0), Lower(5)}
HexDigits == {d \in SeqsUpTo(HexAlphabet, MaxBlobDigits) : Len(d) > 0 /\ Len(d) % 2 = 0}
HexBlobs == {BlobOf(Sixteen, Separated(d, sep)) : d \in HexDigits, sep \in Separators}
DeadBeef == BlobOf(Sixteen, <<Upper(3), Upper(4), Upper(0), Upper(3), USCORE,
                             Upper(1), Upper(4), Upper(4), Upper(5)>>)
Sixty4 == <<Digit(6), Digit(4)>>
Base64Alphabet == {Upper(16), Lower(5), Digit(1), SLASH}
Base64Blobs == {BlobOf(Sixty4, d) : d \in [1..4 -> Base64Alphabet]}
\* The blob 16#FF after a name and a space, and before a space or a name.
SpacedBlobs ==
    { pre \o BlobOf(Sixteen, <<Upper(5), Upper(5)>>) \o post :
        pre \in {<<>>, <<Letter, SP>>}, post \in {<<>>, <<SP>>, <<Letter>>} }
BlobInputs == HexBlobs \cup {DeadBeef} \cup Base64Blobs \cup SpacedBlobs

\* Literals with a base that is no base of a number (0, 1, 37, 99, and
\* 2^32 + 16) or no base of a blob (3, 10, 36): the base, '#', one or two
\* digits, and what follows them.
BadBases == {<<Digit(0)>>, <<Digit(1)>>, <<Digit(3), Digit(7)>>, <<Digit(9), Digit(9)>>}
WideBase == <<Digit(4), Digit(2), Digit(9), Digit(4), Digit(9), Digit(6), Digit(7),
              Digit(3), Digit(1), Digit(2)>>
BadBlobBases == {<<Digit(3)>>, <<Digit(1), Digit(0)>>, <<Digit(3), Digit(6)>>}
BadBaseDigits == {<<Digit(1)>>, <<Lower(25)>>, <<Digit(1), Lower(25)>>}
BadBaseLiterals ==
    {[base |-> b, digits |-> d, end |-> e] :
        b \in BadBases, d \in BadBaseDigits, e \in {<<>>, <<SP>>, <<HASH>>}}
    \cup {[base |-> WideBase, digits |-> <<Digit(1)>>, end |-> <<HASH>>]}
LiteralText(lit) == lit.base \o <<HASH>> \o lit.digits \o lit.end
BadBaseBlobs == {BlobOf(b, <<Digit(1), Digit(2)>>) : b \in BadBlobBases}
BadBaseInputs == {LiteralText(lit) : lit \in BadBaseLiterals} \cup BadBaseBlobs

\* Text inputs: a delimiter, a content in which each delimiter is written
\* twice, the delimiter again, and what follows the literal.  The content
\* is over a letter, both quotes, a backslash and a line break.
MaxTextLen == 2
Backslash == UpperZ + 2
TextAlphabet == {Letter, DQUOTE, SQUOTE, Backslash, NL}
RECURSIVE Doubled(_, _)
Doubled(content, q) ==
    IF content = <<>> THEN <<>>
    ELSE (IF Head(content) = q THEN <<q, q>> ELSE <<Head(content)>>)
         \o Doubled(Tail(content), q)
TextLiterals ==
    {[q |-> q, content |-> c, end |-> e] :
        q \in {DQUOTE, SQUOTE}, c \in SeqsUpTo(TextAlphabet, MaxTextLen),
        e \in {<<>>, <<SP>>, <<Letter>>}}
Quoted(lit) == <<lit.q>> \o Doubled(lit.content, lit.q) \o <<lit.q>>
\* The same literals without their closing delimiter: the input ends
\* inside the text.
OpenLiterals == {lit \in TextLiterals : lit.end = <<>>}
Unclosed(lit) == <<lit.q>> \o Doubled(lit.content, lit.q)
TextInputs == {Quoted(lit) \o lit.end : lit \in TextLiterals}
              \cup {Unclosed(lit) : lit \in OpenLiterals}

\* Block inputs: parentheses and a name.
BlockInputs == SeqsUpTo({LPAREN, RPAREN, Letter}, MaxTextLen)

\* Exponent inputs: a mantissa of one digit in base 10 or 2, 'e', a sign or
\* none, the decimal digits of an exponent and a space.  The exponents are
\* 0, 2, 20, 64, 2^32 and 2^32 + 1.
ExponentHeads ==
    { [text |-> <<Digit(1)>>, base |-> 10, mantissa |-> 1],
      [text |-> <<Digit(3)>>, base |-> 10, mantissa |-> 3],
      [text |-> <<Digit(2), HASH, Digit(1)>>, base |-> 2, mantissa |-> 1] }
ExponentSigns == {<<>>, <<PLUS>>, <<MINUS>>}
Exponents == { <<0>>, <<2>>, <<2, 0>>, <<6, 4>>,
               <<4, 2, 9, 4, 9, 6, 7, 2, 9, 6>>, <<4, 2, 9, 4, 9, 6, 7, 2, 9, 7>> }
ExponentLiterals == [head : ExponentHeads, sign : ExponentSigns, digits : Exponents]
ExponentText(lit) ==
    lit.head.text \o <<LowerE>> \o lit.sign
    \o [k \in 1..Len(lit.digits) |-> Digit(lit.digits[k])] \o <<SP>>
ExponentInputs == {ExponentText(lit) : lit \in ExponentLiterals}

\* Inputs with a NUL byte: those of the byte-level length over NUL, a
\* letter, a digit and a '.'.
NulInputs ==
    {q \in SeqsUpTo({NUL, Letter, Digit(1), DOT}, MaxLen) : Count(q, NUL) > 0}

\* Indented inputs: two lines, each a line break, up to MaxIndentLen spaces
\* and tabs, and a one-letter name.
MaxIndentLen == 2
Indentations == SeqsUpTo({SP, TAB}, MaxIndentLen)
IndentedInputs ==
    { <<NL>> \o a \o <<Letter, NL>> \o b \o <<Letter>> :
        a \in Indentations, b \in Indentations }

\* Nested blocks: up to MaxNesting '(' and as many ')' or one more, and the
\* same with the words of a syntax whose block is b ... e.
MaxNesting == 2
Repeated(q, n) == [k \in 1..(n * Len(q)) |-> q[((k - 1) % Len(q)) + 1]]
Nested(opening, closing) ==
    { Repeated(opening, i) \o Repeated(closing, j) :
        i \in 0..MaxNesting, j \in 0..(MaxNesting + 1) }
NestedInputs == Nested(<<LPAREN>>, <<RPAREN>>)
WordSyntax == Syntax({}, {<< <<Lower(1)>>, <<Lower(4)>> >>})
WordInputs == Nested(<<Lower(1), SP>>, <<Lower(4), SP>>)

Init == InitWith(ByteInputs \cup LayoutInputs \cup ScenarioInputs \cup BlobInputs
                 \cup BadBaseInputs \cup TextInputs \cup BlockInputs
                 \cup IndentedInputs \cup ExponentInputs \cup NulInputs
                 \cup NestedInputs,
                 {NoSyntax, DemoSyntax})
        \/ InitWith(WordInputs, {WordSyntax})
Next == Read
Spec == Init /\ [][Next]_vars

-----------------------------------------------------------------------------
(* name_is_valid and scanner_normalize, called on a spelling               *)

\* Spellings: every sequence of at most MaxNameLen bytes over two letters,
\* a digit, '_', a punctuation character and a line break.
MaxNameLen == 3
NameAlphabet == {Lower(0), Upper(1), Digit(1), USCORE, PLUS, NL}
NameInputs == SeqsUpTo(NameAlphabet, MaxNameLen) \cup {<<TAB>>, <<BS>>, <<SP>>}

InitNames ==
    /\ given \in NameInputs
    /\ stream = <<>>
    /\ s = NewScanner(NoSyntax)
    /\ position = 0
    /\ errors = <<>>
    /\ tok = "NONE"
    /\ run = "ok"
    /\ hist = <<>>
    /\ out = NoOutput
    /\ sink = NoSink

\* name_is_valid(size, data) on the spelling.
IsValid ==
    /\ run = "ok"
    /\ "valid" \notin out.did
    /\ out' = [out EXCEPT !.did = @ \cup {"valid"}, !.valid = name_is_valid(given)]
    /\ UNCHANGED <<s, stream, position, errors, tok, run, hist, given, sink>>

\* The run and the output after a call of scanner_normalize that gave n.
Normalised(n, field) ==
    /\ run' = (IF Failed(n.m) THEN "aborted" ELSE "ok")
    /\ out' = [out EXCEPT !.did = @ \cup {field}, ![field] = n.name]
    /\ UNCHANGED <<s, stream, position, errors, tok, hist, given, sink>>

\* scanner_normalize on the spelling.
NormaliseSpelling ==
    /\ run = "ok"
    /\ "normal" \notin out.did
    /\ \E mem \in OobChoices :
         Normalised(scanner_normalize(Machine(s, stream, position, errors, mem), given),
                    "normal")

\* scanner_normalize on the bytes of the name the first call gave.
NormaliseAgain ==
    /\ run = "ok"
    /\ "normal" \in out.did
    /\ "again" \notin out.did
    /\ \E mem \in OobChoices :
         Normalised(scanner_normalize(Machine(s, stream, position, errors, mem),
                                      out.normal),
                    "again")

NextNames == IsValid \/ NormaliseSpelling \/ NormaliseAgain
SpecNames == InitNames /\ [][NextNames]_vars

-----------------------------------------------------------------------------
(* error.c: the errors buffers and errors_save, errors_commit, errors_clear *)

\* At most MaxBuffers buffers are created and MaxReports errors reported.
MaxBuffers == 4
MaxReports == 2
Reports == {[position |-> 1, message |-> "first error"],
            [position |-> 2, message |-> "second error"]}

\* The reference count a constructor gives a new node: 1 by the lifetime
\* discipline; 0 where the callers of a constructor `use` its result
\* themselves (text_use(text_new(...)) in scanner_read).
NewRefcounts == {0, 1}

\* A holder is 0 (NULL) or the index of a buffer of the heap.
tree_use(heap, node) ==
    IF node = 0 THEN heap ELSE [heap EXCEPT ![node].refcount = @ + 1]

\* dispose: one reference less; the storage is freed when none is left.
tree_dispose(heap, node) ==
    IF node = 0 THEN heap
    ELSE [heap EXCEPT ![node].refcount = @ - 1,
                      ![node].freed = @ \/ heap[node].refcount = 1]

\* errors_new(position, 0, NULL): a new, empty buffer at the end of the heap.
errors_new(k) ==
    [k EXCEPT !.heap = Append(@, [refcount |-> k.new_refcount, items |-> <<>>,
                                  freed |-> FALSE])]

\* errors_set(&errors, value): use the value, dispose what the holder held.
errors_set(k, value) ==
    [k EXCEPT !.heap = tree_dispose(tree_use(@, value), k.errors),
              !.errors = value]

\* A use of the storage of a buffer that was freed has no defined outcome:
\* the model records it and follows the run no further.
Dangling(k, node) == node # 0 /\ k.heap[node].freed
Undefined(k) == [k EXCEPT !.undefined = TRUE]
Done(k, last) ==
    IF k.undefined THEN [k EXCEPT !.last = [op |-> "undefined", call |-> last.op]]
    ELSE [k EXCEPT !.last = last]

\* errors_count(): the length of the current buffer.
errors_count(k) == Len(k.heap[k.errors].items)

InitErrors ==
    /\ \E n \in NewRefcounts : sink = [NoSink EXCEPT !.new_refcount = n]
    /\ given = <<>>
    /\ stream = <<>>
    /\ s = NewScanner(NoSyntax)
    /\ position = 0
    /\ errors = <<>>
    /\ tok = "NONE"
    /\ run = "ok"
    /\ hist = <<>>
    /\ out = NoOutput

\* What errors_save returned or a caller passes: the items of that buffer.
ItemsOf(k, node) == IF node = 0 THEN <<>> ELSE k.heap[node].items

\* text_vprintf(position, message, va): the text of the error, with its
\* position; serial tells one report from another.
text_vprintf(report, n) ==
    [position |-> report.position, message |-> report.message, serial |-> n]

\* errorv: the error goes to the current buffer, or to the display when
\* there is none.
Pushed(k, msg) ==
    IF k.errors = 0 THEN [k EXCEPT !.shown = Append(@, msg)]
    ELSE IF Dangling(k, k.errors) THEN Undefined(k)
    ELSE [k EXCEPT !.heap[k.errors].items = Append(@, msg)]

errorv ==
    /\ ~sink.undefined
    /\ sink.reports < MaxReports
    /\ \E report \in Reports :
         sink' = Done([Pushed(sink, text_vprintf(report, sink.reports + 1))
                           EXCEPT !.reports = @ + 1],
                      [op |-> "error", report |-> report, errors |-> sink.errors,
                       heap |-> sink.heap, shown |-> sink.shown])
    /\ UNCHANGED <<s, stream, position, errors, tok, run, hist, given, out>>

\* What errors_save leaves and returns: the caller holds the result; marks
\* keeps what the buffer held and what had been displayed at that time.
Saved(k) ==
    IF Dangling(k, k.errors) THEN Undefined(k)
    ELSE [errors_set(errors_new(k), Len(k.heap) + 1) EXCEPT
              !.held = Append(@, k.errors),
              !.marks = Append(@, [items |-> ItemsOf(k, k.errors),
                                   shown |-> k.shown])]

errors_save ==
    /\ ~sink.undefined
    /\ Len(sink.heap) < MaxBuffers
    /\ sink' = Done(Saved(sink),
                    [op |-> "save", result |-> sink.errors,
                     items |-> ItemsOf(sink, sink.errors),
                     depth |-> Len(sink.held)])
    /\ UNCHANGED <<s, stream, position, errors, tok, run, hist, given, out>>

\* errors_display(&errors): show every error of the buffer, dispose it.
errors_display(k) ==
    [k EXCEPT !.shown = @ \o k.heap[k.errors].items,
              !.heap = tree_dispose(@, k.errors),
              !.errors = 0]

\* errors_append(&saved_errors, errors), then errors_set(&errors, saved_errors).
Appended(k, saved) ==
    errors_set([k EXCEPT !.heap[saved].items = @ \o k.heap[k.errors].items], saved)

Committed(k, saved) ==
    IF k.errors = 0 \/ Dangling(k, k.errors) \/ Dangling(k, saved) THEN Undefined(k)
    ELSE IF saved # 0 THEN Appended(k, saved)
    ELSE errors_display(k)

Popped(k) == [k EXCEPT !.held = SubSeq(@, 1, Len(@) - 1),
                       !.marks = SubSeq(@, 1, Len(@) - 1)]

\* errors_commit(saved_errors), with the buffer the matching errors_save gave.
errors_commit ==
    /\ ~sink.undefined
    /\ sink.held # <<>>
    /\ sink' = Done(Popped(Committed(sink, sink.held[Len(sink.held)])),
                    [op |-> "commit", saved |-> sink.held[Len(sink.held)],
                     items |-> ItemsOf(sink, sink.held[Len(sink.held)]),
                     committed |-> ItemsOf(sink, sink.errors),
                     shown |-> sink.shown])
    /\ UNCHANGED <<s, stream, position, errors, tok, run, hist, given, out>>

\* errors_dispose(&errors); errors = saved_errors.
Cleared(k, saved) ==
    IF Dangling(k, k.errors) THEN Undefined(k)
    ELSE [k EXCEPT !.heap = tree_dispose(@, k.errors), !.errors = saved]

\* errors_clear(saved_errors), with the buffer the matching errors_save gave.
errors_clear ==
    /\ ~sink.undefined
    /\ sink.held # <<>>
    /\ sink' = Done(Popped(Cleared(sink, sink.held[Len(sink.held)])),
                    [op |-> "clear", saved |-> sink.held[Len(sink.held)],
                     mark |-> sink.marks[Len(sink.marks)]])
    /\ UNCHANGED <<s, stream, position, errors, tok, run, hist, given, out>>

NextErrors == errorv \/ errors_save \/ errors_commit \/ errors_clear
SpecErrors == InitErrors /\ [][NextErrors]_vars

-----------------------------------------------------------------------------
(* scanner_skip among the calls of scanner_read                            *)

\* Inputs of at most MaxSkipLen bytes over a letter, the two characters of
\* a comment end, a line break and a space; at most MaxSkips skips.
MaxSkipLen == 4
MaxSkips == 1
Star == PLUS - 1
SkipAlphabet == {Letter, Star, SLASH, NL, SP}
SkipInputs == SeqsUpTo(SkipAlphabet, MaxSkipLen)
Closings == {<<Star, SLASH>>, <<NL>>}
\* The byte after the closing name's data: a NUL, or a byte that is not in
\* the input.
AfterName == {NUL, SOH}

\* Continued inputs: a line indented by 1..MaxSkipIndent spaces, then a
\* line with up to one space more than that, a letter and the comment end.
MaxSkipIndent == 1
ContinuedInputs ==
    { <<NL>> \o Spaces(i) \o <<Letter, NL>> \o Spaces(j) \o <<Letter, Star, SLASH>> :
        i \in 1..MaxSkipIndent, j \in 0..(MaxSkipIndent + 1) }

InitSkip == InitWith(SkipInputs \cup ContinuedInputs, {NoSyntax})

Skips == Cardinality({i \in 1..Len(hist) : hist[i].call = "skip"})

\* The characters a call can still get: the pending ones, then the stream.
Pending(sc) ==
    (IF sc.pending_char[1] # 0 THEN <<sc.pending_char[1]>> ELSE <<>>)
    \o (IF sc.pending_char[2] # 0 THEN <<sc.pending_char[2]>> ELSE <<>>)
Ahead(sc, in) == Pending(sc) \o (IF sc.reader THEN in ELSE <<>>)

\* The state after a scanner_skip that ended as r says, and its record.
Skipped(r, closing, after) ==
    /\ s' = r.m.sc
    /\ stream' = r.m.input
    /\ position' = r.m.position
    /\ errors' = r.m.errors
    /\ tok' = tok
    /\ run' = (IF Failed(r.m) THEN "aborted" ELSE "ok")
    /\ hist' = Append(hist, [call |-> "skip", tok |-> "NONE", closing |-> closing,
                             after |-> after, comment |-> r.comment,
                             ahead |-> Ahead(s, stream),
                             rest |-> Ahead(r.m.sc, r.m.input),
                             indent |-> s.indent,
                             checking |-> s.checking_indent,
                             column |-> s.column, why |-> r.m.fail])

\* One call of scanner_skip.
Skip ==
    /\ run = "ok"
    /\ Len(hist) < MaxCalls
    /\ Skips < MaxSkips
    /\ \E closing \in Closings, after \in AfterName, mem \in OobChoices :
         Skipped(scanner_skip(Machine(s, stream, position, errors, mem), closing, after),
                 closing, after)
    /\ UNCHANGED <<given, out, sink>>

NextSkip == Read \/ Skip
SpecSkip == InitSkip /\ [][NextSkip]_vars

-----------------------------------------------------------------------------
(* scanner_open_parenthese and scanner_close_parenthese among the calls of *)
(* scanner_read                                                            *)

\* Inputs: up to MaxParenLines lines, each at the margin or indented by one
\* space, and an optional final line break; the caller opens at most
\* MaxOpens parentheses.
MaxParenLines == 2
MaxOpens == 2
ParenCols == {0, 1}
ParenInputs ==
    { Lines(cols) \o last :
        cols \in SeqsUpTo(ParenCols, MaxParenLines),
        last \in {<<>>, <<NL>>} }

InitParens == InitWith(ParenInputs, {NoSyntax})

Opens == Cardinality({i \in 1..Len(hist) : hist[i].call = "open"})

\* The state after a call that left the machine m and whose record is h.
Parenthesed(m, h) ==
    /\ s' = m.sc
    /\ run' = (IF Failed(m) THEN "aborted" ELSE "ok")
    /\ hist' = Append(hist, h)
    /\ UNCHANGED <<stream, position, errors, tok, given, sink>>

\* The caller keeps the value scanner_open_parenthese returned, and the
\* place of the call in the history.
Opened_(r) ==
    /\ Parenthesed(r.m, [call |-> "open", tok |-> "NONE", result |-> r.result,
                         indent |-> s.indent, setting |-> s.setting_indent,
                         levels |-> s.indents, why |-> ""])
    /\ out' = [out EXCEPT !.saved = Append(@, [value |-> r.result,
                                               at |-> Len(hist) + 1])]

OpenParenthese ==
    /\ run = "ok"
    /\ Len(hist) < MaxCalls
    /\ Opens < MaxOpens
    /\ \E mem \in OobChoices :
         Opened_(scanner_open_parenthese(Machine(s, stream, position, errors, mem)))

\* The caller passes the value of the matching scanner_open_parenthese.
Closed(m, saved) ==
    /\ Parenthesed(m, [call |-> "close", tok |-> "NONE", old_indent |-> saved.value,
                       open |-> saved.at, indent |-> s.indent,
                       setting |-> s.setting_indent, levels |-> s.indents,
                       restored |-> m.sc.indent,
                       setting_after |-> m.sc.setting_indent,
                       levels_after |-> m.sc.indents, why |-> m.fail])
    /\ out' = [out EXCEPT !.saved = Front(@)]

CloseParenthese ==
    /\ run = "ok"
    /\ Len(hist) < MaxCalls
    /\ out.saved # <<>>
    /\ \E mem \in OobChoices :
         Closed(scanner_close_parenthese(Machine(s, stream, position, errors, mem),
                                         Last(out.saved).value),
                Last(out.saved))

NextParens == Read \/ OpenParenthese \/ CloseParenthese
SpecParens == InitParens /\ [][NextParens]_vars

-----------------------------------------------------------------------------
(* Properties of the scanner                                               *)

TokenKinds == {"EOF", "NEWLINE", "INDENT", "UNINDENT", "INTEGER", "REAL", "CHARACTER",
               "TEXT", "BLOB", "NAME", "SYMBOL", "OPEN", "CLOSE", "ERROR"}

Calls == 1..Len(hist)
Valued(i) == hist[i].value.kind # "none"
Returned(i) == hist[i].tok \in TokenKinds

\* A call that returned at the indent decision, and the character it found
\* at the start of the line and pushed back.
LineBreak(i) == hist[i].path = "line"
FirstChar(i) == hist[i].pending[1]
HasToken(i) == LineBreak(i) /\ FirstChar(i) # EOFc

\* The unindent-misalign ERROR.
Misalign(i) == LineBreak(i) /\ hist[i].tok = "ERROR"

\* The indentation columns open before call i, outermost (column 0) first.
Enclosing(i) == <<0>> \o hist[i].levels
Depth(i) == Len(hist[i].levels)
Shallower(i, k) == k \in 1..Depth(i) /\ hist[i].column = Enclosing(i)[Depth(i) + 1 - k]

RECURSIVE SumOver(_, _)
SumOver(f(_), n) == IF n = 0 THEN 0 ELSE f(n) + SumOver(f, n - 1)
Accounted(i) == Len(hist[i].spelling) + hist[i].ws

\* C1: every scanner_read call returns one of the token kinds: no call fails
\* an assertion, aborts, or fails to return.
C1_EveryCallReturnsAToken == \A i \in Calls : hist[i].tok \in TokenKinds

\* C2: when EOF is returned and no unindent-misalign ERROR was, as many
\* UNINDENT tokens as INDENT tokens have been returned.
C2_IndentsAreClosedBeforeEof ==
    (tok = "EOF" /\ \A i \in Calls : ~Misalign(i))
        => CountTok("UNINDENT") = CountTok("INDENT")

\* C3: at a line break followed by a token, a column deeper than the indent
\* returns INDENT, an equal column NEWLINE, and a column equal to the
\* enclosing level k >= 1 levels up returns UNINDENT, then k-1 more UNINDENT
\* from calls that consume nothing, then the call that scans the line's
\* first token.
C3_DedentChain ==
    \A i \in Calls : HasToken(i) =>
        /\ hist[i].column > hist[i].indent => hist[i].tok = "INDENT"
        /\ hist[i].column = hist[i].indent => hist[i].tok = "NEWLINE"
        /\ \A k \in 1..Depth(i) : Shallower(i, k) =>
             /\ \A j \in 0..(k - 1) : i + j <= Len(hist) =>
                  /\ hist[i + j].tok = "UNINDENT"
                  /\ j >= 1 => hist[i + j].taken = 0 /\ hist[i + j].steps = 0
             /\ i + k <= Len(hist) =>
                  /\ hist[i + k].path = "token"
                  /\ Returned(i + k) =>
                       /\ hist[i + k].spelling # <<>>
                       /\ Head(hist[i + k].spelling) = FirstChar(i)

\* A dedent of two levels whose second UNINDENT was drained and whose
\* line's first token was then returned.
C3_Witness ==
    \E i \in Calls :
        /\ HasToken(i) /\ Shallower(i, 2) /\ i + 2 <= Len(hist)
        /\ hist[i].tok = "UNINDENT"
        /\ hist[i + 1].tok = "UNINDENT" /\ hist[i + 1].path = "drain"
        /\ hist[i + 2].tok = "NAME"

\* C4 as stated: two spaces, a newline, two spaces, foo and a newline scan
\* as NEWLINE, INDENT, NAME(foo), NEWLINE, UNINDENT, EOF.
C4_AsStated ==
    given = BlankThenFoo =>
        LET want == <<"NEWLINE", "INDENT", "NAME", "NEWLINE", "UNINDENT", "EOF">> IN
        /\ \A i \in Calls : i <= 6 => hist[i].tok = want[i]
        /\ Len(hist) >= 3 => hist[3].value.value = <<Lower(5), Lower(14), Lower(14)>>

\* C4: two spaces, a newline, two spaces, foo and a newline scan as
\* INDENT, NAME(foo), UNINDENT, EOF on four successive calls.
C4_BlankLineIsSkipped ==
    given = BlankThenFoo =>
        LET want == <<"INDENT", "NAME", "UNINDENT", "EOF">> IN
        /\ \A i \in Calls : i <= 4 => hist[i].tok = want[i]
        /\ Len(hist) >= 2 => /\ hist[2].value.kind = "name"
                             /\ hist[2].value.value = <<Lower(5), Lower(14), Lower(14)>>

\* The four calls on that input have been made.
C4_Witness == given = BlankThenFoo /\ Len(hist) = 4 /\ tok = "EOF"

\* C5: a line break at a column below the indent that is none of the
\* enclosing columns returns ERROR and reports the unindent message once.
C5_MisalignedDedentIsError ==
    \A i \in Calls :
        ( /\ LineBreak(i) /\ Returned(i)
          /\ hist[i].column < hist[i].indent
          /\ \A n \in 1..Len(Enclosing(i)) : hist[i].column # Enclosing(i)[n] )
        => /\ hist[i].tok = "ERROR"
           /\ Len(hist[i].msgs) = 1
           /\ hist[i].msgs[1].msg = BadUnindent

\* C6: when EOF is returned, the spellings and the whitespace consumed
\* before them add up to the input's length.
C6_SpellingsAddUpToInput ==
    tok = "EOF" => SumOver(Accounted, Len(hist)) = Len(given)

\* C7: no call steps the position back, and when EOF is returned the
\* position has advanced by the input's length.
C7_OneStepPerByte ==
    /\ \A i \in Calls : hist[i].steps >= 0
    /\ tok = "EOF" => position = Len(given)

\* C8: the positions stored in the scanned values of successive calls
\* never decrease.
C8_TokenPositionsNeverDecrease ==
    \A i, j \in Calls :
        (i < j /\ Valued(i) /\ Valued(j)) => hist[i].value.pos <= hist[j].value.pos

\* An INTEGER that pushed back two characters, the tokens read from them,
\* later a drained UNINDENT, and a token with a position after it.
C8_Witness ==
    \E i, d \in Calls :
        /\ i + 2 < d /\ d < Len(hist)
        /\ hist[i].tok = "INTEGER" /\ hist[i].pending[2] # 0
        /\ Valued(i + 1) /\ hist[i + 1].taken = 0
        /\ Valued(i + 2)
        /\ hist[d].path = "drain"
        /\ Valued(d + 1)

\* The value of a run of decimal digits.
RECURSIVE DecimalValue(_)
DecimalValue(q) == IF q = <<>> THEN 0
                   ELSE 10 * DecimalValue(Front(q)) + (Last(q) - Char0)
RECURSIVE LeadingDigits(_)
LeadingDigits(q) == IF q # <<>> /\ isdigit(Head(q)) THEN 1 + LeadingDigits(Tail(q)) ELSE 0

\* Digits, a '.', then a character that is no decimal digit.
DotAfterInteger ==
    LET n == LeadingDigits(given) IN
    n >= 1 /\ Len(given) >= n + 2 /\ given[n + 1] = DOT /\ ~isdigit(given[n + 2])

\* C9: digits, '.', then a non-digit: the first call returns INTEGER with
\* the digits' value and leaves '.' and the next character pending in that
\* order, and the next call starts at the '.'; 1..3 reads as INTEGER(1),
\* SYMBOL(..), INTEGER(3).
C9_DotAndNextArePushedBack ==
    /\ (DotAfterInteger /\ Len(hist) >= 1) =>
          LET n == LeadingDigits(given) IN
          /\ hist[1].tok = "INTEGER"
          /\ U64Value(hist[1].value.value) = DecimalValue(Take(given, n))
          /\ hist[1].pending = <<DOT, given[n + 2]>>
          /\ Len(hist) >= 2 =>
                (Returned(2) => Head(hist[2].spelling) = DOT)
    /\ given = OneDotDotThree =>
          /\ Len(hist) >= 1 => hist[1].tok = "INTEGER" /\ U64Value(hist[1].value.value) = 1
          /\ Len(hist) >= 2 => hist[2].tok = "SYMBOL" /\ hist[2].value.value = <<DOT, DOT>>
          /\ Len(hist) >= 3 => hist[3].tok = "INTEGER" /\ U64Value(hist[3].value.value) = 3

\* C10: a based literal, with or without its closing '#', scans as the
\* INTEGER of its value: 16#FF is 255 and 2#1_0000_0000 is 256.
BasedLiterals == {[text |-> HexFF, n |-> 255], [text |-> Binary256, n |-> 256]}
C10_BasedLiteralValue ==
    \A lit \in BasedLiterals :
        (given \in {lit.text, lit.text \o <<HASH>>} /\ Len(hist) >= 1) =>
            /\ hist[1].tok = "INTEGER"
            /\ U64Value(hist[1].value.value) = lit.n


\* The digits of a blob input, and the bytes that pairs of hexadecimal
\* digits stand for.
BlobBody(q) == SubSeq(q, 5, Len(q) - 1)
DigitsOf(body) == SelectSeq(body, isalnum)
DigitVal(c) == IF c <= Char9 THEN c - Char0
             ELSE IF c <= UpperZ THEN c - UpperA + 10
             ELSE c - LowerA + 10
PairedBytes(d) == [i \in 1..(Len(d) \div 2) |-> 16 * DigitVal(d[2 * i - 1]) + DigitVal(d[2 * i])]

\* C11: a blob literal '$16#h1 h2 ... h2k$' returns BLOB, and the blob has
\* exactly k bytes, byte i being 16*h(2i-1) + h(2i); '$16#DEAD_BEEF$' gives
\* DE AD BE EF.
C11_HexBlobBytes ==
    (given \in HexBlobs \cup {DeadBeef} /\ Len(hist) >= 1) =>
        /\ hist[1].tok = "BLOB"
        /\ hist[1].value.kind = "blob"
        /\ hist[1].value.value = PairedBytes(DigitsOf(BlobBody(given)))

\* The value of a digit of the base-64 alphabet, and the three bytes that
\* four of them stand for.
Base64Val(c) == IF isupper(c) THEN c - UpperA
                ELSE IF islower(c) THEN c - LowerA + 26
                ELSE IF isdigit(c) THEN c - Char0 + 52
                ELSE IF c = PLUS THEN 62
                ELSE 63
QuadValue(d) == ((Base64Val(d[1]) * 64 + Base64Val(d[2])) * 64 + Base64Val(d[3])) * 64
                + Base64Val(d[4])
QuadBytes(d) == << QuadValue(d) \div 65536, (QuadValue(d) \div 256) % 256,
                   QuadValue(d) % 256 >>

\* C12: in a blob with the base prefix '64#' each digit of the base-64
\* alphabet contributes 6 bits to 24-bit chunks: four digits yield exactly
\* three bytes.
C12_Base64BlobBytes ==
    (given \in Base64Blobs /\ Len(hist) >= 1) =>
        /\ hist[1].tok = "BLOB"
        /\ hist[1].value.kind = "blob"
        /\ hist[1].value.value = QuadBytes(BlobBody(given))

\* The value of a digit string in base 36, and the messages of call i.
RECURSIVE Base36Value(_)
Base36Value(q) == IF q = <<>> THEN 0
                  ELSE 36 * Base36Value(Front(q)) + DigitVal(Last(q))
Messages(i) == [k \in 1..Len(hist[i].msgs) |-> hist[i].msgs[k].msg]

\* C13: a base that is not in 2..36 and is not 64 is reported once, the
\* digits after it are read in base 36 and the call returns the number; in
\* a blob, a base of numbers that is not 2, 4, 8, 16 or 64 is reported once
\* and the call returns BLOB.
C13_InvalidBaseIsReported ==
    /\ \A lit \in BadBaseLiterals :
          (given = LiteralText(lit) /\ Len(hist) >= 1) =>
              /\ hist[1].tok = "INTEGER"
              /\ Messages(1) = <<BadBase>>
              /\ U64Value(hist[1].value.value) = Base36Value(lit.digits)
    /\ (given \in BadBaseBlobs /\ Len(hist) >= 1) =>
          /\ hist[1].tok = "BLOB"
          /\ Messages(1) = <<BadBlobBase>>

\* What a literal of the given content scans to.
LiteralToken(lit) == IF lit.q = DQUOTE THEN "TEXT" ELSE "CHARACTER"
LiteralValue(lit) == IF lit.q = DQUOTE THEN lit.content
                     ELSE IF lit.content = <<>> THEN 0 ELSE Head(lit.content)

\* The input starts with the literal's delimiter, is longer than its
\* content, and a call has been made on it.
Begun(lit) ==
    Len(hist) >= 1 /\ Len(given) > Len(lit.content) /\ given[1] = lit.q

\* The input starts with a delimiter and a call has been made on it.
Quoting == Len(hist) >= 1 /\ given # <<>> /\ given[1] \in {DQUOTE, SQUOTE}

\* C14: the text of a literal is the bytes between its opening delimiter
\* and the first delimiter that is not followed by another one, each doubled
\* delimiter standing for one; nothing else is an escape.  The literal ends
\* at that delimiter; a double-quoted literal returns TEXT, a single-quoted
\* one CHARACTER, the value of the first byte of its text.
C14_DoubledDelimiterIsTheOnlyEscape ==
    Quoting => \A lit \in TextLiterals :
        (Begun(lit) /\ given = Quoted(lit) \o lit.end) =>
            /\ hist[1].spelling = Quoted(lit)
            /\ hist[1].tok = LiteralToken(lit)
            /\ hist[1].value.value = LiteralValue(lit)

\* A literal with a backslash before a doubled delimiter has been scanned
\* to its closing delimiter, and a name follows it.
C14_Witness ==
    /\ given = <<DQUOTE, Backslash, DQUOTE, DQUOTE, DQUOTE, Letter>>
    /\ Len(hist) = 2
    /\ hist[1].tok = "TEXT" /\ hist[1].value.value = <<Backslash, DQUOTE>>
    /\ hist[2].tok = "NAME"

\* C15: when the input ends inside a literal, the call reports 'End of
\* input in the middle of a text' exactly once and returns TEXT (or
\* CHARACTER) with the bytes read after the opening delimiter; the next
\* call returns EOF.
C15_EndOfInputInText ==
    Quoting => \A lit \in OpenLiterals :
        (Begun(lit) /\ given = Unclosed(lit)) =>
            /\ Len(hist) >= 1 =>
                  /\ hist[1].tok = LiteralToken(lit)
                  /\ Count(Messages(1), EofInText) = 1
                  /\ hist[1].value.value = LiteralValue(lit)
            /\ Len(hist) >= 2 => hist[2].tok = "EOF"

\* An unclosed text whose content ends with a doubled delimiter has been
\* returned, and EOF after it.
C15_Witness ==
    /\ given = <<DQUOTE, Letter, DQUOTE, DQUOTE>>
    /\ Len(hist) = 2
    /\ hist[1].tok = "TEXT" /\ hist[1].value.value = <<Letter, DQUOTE>>
    /\ Messages(1) = <<EofInText>>
    /\ hist[2].tok = "EOF"

\* C16: a single-quoted literal always returns CHARACTER, and 'should
\* contain one character' is reported exactly when its content is not one
\* character long.
C16_CharacterOfOneCharacter ==
    Quoting => \A lit \in TextLiterals :
        (lit.q = SQUOTE /\ Begun(lit)
                        /\ given \in {Quoted(lit) \o lit.end, Unclosed(lit)}) =>
            /\ hist[1].tok = "CHARACTER"
            /\ hist[1].value.kind = "character"
            /\ Count(Messages(1), NotOneChar) = (IF Len(lit.content) = 1 THEN 0 ELSE 1)

\* 'a' has been returned without a message, a two-character constant and
\* an empty one each with one message.
C16_Witness ==
    /\ Len(hist) = 1 /\ hist[1].tok = "CHARACTER"
    /\ \/ given = <<SQUOTE, Letter, SQUOTE>> /\ Messages(1) = <<>>
                                             /\ hist[1].value.value = Letter
       \/ given = <<SQUOTE, Letter, Backslash, SQUOTE>> /\ Messages(1) = <<NotOneChar>>
       \/ given = <<SQUOTE, SQUOTE, SP>> /\ Messages(1) = <<NotOneChar>>

\* What the naming rule says of a spelling.
OperatorRule(d) == d # <<>> /\ \A i \in 1..Len(d) : ispunct(d[i])
AlphabeticRule(d) ==
    /\ d # <<>> /\ isalpha(d[1])
    /\ \A i \in 2..Len(d) : isalnum(d[i]) \/ d[i] = USCORE
    /\ \A i \in 1..(Len(d) - 1) : ~(d[i] = USCORE /\ d[i + 1] = USCORE)
    /\ Last(d) # USCORE
MarkerRule(d) == Len(d) = 1 /\ d[1] \in {NL, TAB, BS}

\* C17: name_is_valid is true exactly for the operator names (all
\* punctuation), the alphabetic names (a letter, then letters, digits and
\* '_', no two '_' in a row, no '_' at the end) and the one-byte markers
\* newline, tab and backspace.
C17_NameIsValid ==
    "valid" \in out.did =>
        (out.valid <=> (OperatorRule(given) \/ AlphabeticRule(given) \/ MarkerRule(given)))

\* The canonical form of a spelling: every '_' removed, every ASCII
\* upper-case letter replaced by its lower-case.
NotUnderscore(c) == c # USCORE
Canonical(d) ==
    [i \in 1..Len(SelectSeq(d, NotUnderscore)) |->
        IF SelectSeq(d, NotUnderscore)[i] \in UpperA..UpperZ
        THEN SelectSeq(d, NotUnderscore)[i] + (LowerA - UpperA)
        ELSE SelectSeq(d, NotUnderscore)[i]]

\* C18: for every valid name spelling x, scanner_normalize(x) is x with
\* every '_' removed and every ASCII upper-case letter in lower case.
C18_NormalizeIsCanonical ==
    (name_is_valid(given) /\ "normal" \in out.did) =>
        /\ run = "ok"
        /\ out.normal = Canonical(given)

\* C19: normalizing the bytes of scanner_normalize(x) again yields the same
\* bytes, for every valid spelling x on which scanner_normalize is defined.
C19_NormalizeIsIdempotent ==
    (name_is_valid(given) /\ "again" \in out.did) =>
        /\ run = "ok"
        /\ out.again = out.normal

\* The spelling a_B has been normalized to ab, and ab to itself.
C19_Witness ==
    /\ given = <<Lower(0), USCORE, Upper(1)>>
    /\ out.did = {"normal", "again"}
    /\ out.normal = <<Lower(0), Lower(1)>>
    /\ out.again = <<Lower(0), Lower(1)>>

\* C20: right after errors_save() the value it returned is the buffer that
\* was current before the call (none when there was none), that buffer is
\* still allocated and holds the errors it held, and the current buffer is
\* a new, empty one, so that errors_count() is 0; at every nesting depth.
SaveResult == sink.last.result
C20_SaveKeepsPreviousBuffer ==
    sink.last.op = "save" =>
        /\ SaveResult # 0 =>
              /\ ~sink.heap[SaveResult].freed
              /\ sink.heap[SaveResult].items = sink.last.items
        /\ sink.held[Len(sink.held)] = SaveResult
        /\ sink.errors = Len(sink.heap)
        /\ sink.errors # SaveResult
        /\ ~sink.heap[sink.errors].freed
        /\ errors_count(sink) = 0

\* A call of op has just been made, whether or not its outcome is defined.
Attempted(op) ==
    \/ sink.last.op = op
    \/ sink.last.op = "undefined" /\ sink.last.call = op

\* C21: after errors_commit(prev) with prev a buffer, the current buffer is
\* prev and holds the errors prev held followed by those of the committed
\* buffer, in order, and nothing was displayed; with prev none, the errors
\* of the committed buffer were displayed once each, in order, and no
\* buffer is current.
C21_CommitAppendsOrDisplays ==
    Attempted("commit") =>
        /\ sink.last.op = "commit"
        /\ IF sink.last.saved # 0
           THEN /\ sink.errors = sink.last.saved
                /\ ~sink.heap[sink.errors].freed
                /\ sink.heap[sink.errors].items
                       = sink.last.items \o sink.last.committed
                /\ sink.shown = sink.last.shown
           ELSE /\ sink.errors = 0
                /\ sink.shown = sink.last.shown \o sink.last.committed

\* The buffers the callers still hold have the contents they had when they
\* were saved.
SavedUntouched ==
    \A i \in 1..Len(sink.held) :
        sink.held[i] # 0 => sink.heap[sink.held[i]].items = sink.marks[i].items

\* C22: after errors_clear(prev) the current buffer is prev, with the
\* contents it had at the matching errors_save; the errors reported since
\* that save are in no buffer and none of them was displayed.
C22_ClearRestoresPrevious ==
    Attempted("clear") =>
        /\ sink.last.op = "clear"
        /\ sink.errors = sink.last.saved
        /\ sink.errors # 0 =>
              /\ ~sink.heap[sink.errors].freed
              /\ sink.heap[sink.errors].items = sink.last.mark.items
        /\ SavedUntouched
        /\ sink.shown = sink.last.mark.shown

\* The error just reported, as the text errorv made of it.
LastError == text_vprintf(sink.last.report, sink.reports)
NoDuplicate(seq) == \A i, j \in 1..Len(seq) : seq[i] = seq[j] => i = j

\* C23: after error(pos, ...) with a current buffer, that buffer holds one
\* more text, the error with its position, at its end, and nothing was
\* displayed; with no current buffer the error was displayed and nothing
\* stored. No error is ever displayed twice.
C23_ErrorIsPushedOrDisplayed ==
    /\ NoDuplicate(sink.shown)
    /\ Attempted("error") =>
        /\ sink.last.op = "error"
        /\ sink.errors = sink.last.errors
        /\ IF sink.last.errors # 0
           THEN /\ sink.heap = [sink.last.heap EXCEPT
                                   ![sink.errors].items = Append(@, LastError)]
                /\ ~sink.heap[sink.errors].freed
                /\ sink.shown = sink.last.shown
           ELSE /\ sink.shown = Append(sink.last.shown, LastError)
                /\ sink.heap = sink.last.heap

\* The places of a text where the bytes of closing stand contiguously.
OccursAt(closing, text, p) ==
    /\ p + Len(closing) - 1 <= Len(text)
    /\ SubSeq(text, p, p + Len(closing) - 1) = closing
Occurrences(closing, text) == {p \in 1..Len(text) : OccursAt(closing, text, p)}
FirstOccurrence(closing, text) ==
    CHOOSE p \in Occurrences(closing, text) :
        \A q \in Occurrences(closing, text) : p <= q

\* What scanner_skip has to return and to leave when closing first stands
\* at p in the characters ahead.
SkipsTo(h, p) ==
    /\ h.why = ""
    /\ h.comment = Take(h.ahead, p - 1)
    /\ h.rest = SubSeq(h.ahead, p + Len(h.closing), Len(h.ahead))

\* C24: when the closing sequence stands in the input ahead, scanner_skip
\* consumes the input up to the end of its first contiguous occurrence and
\* returns the bytes before that occurrence; bytes that match a prefix of
\* the closing only do not end the skip.
C24_SkipStopsAtFirstClosing ==
    \A i \in 1..Len(hist) :
        hist[i].call = "skip" /\ Occurrences(hist[i].closing, hist[i].ahead) # {}
            => SkipsTo(hist[i], FirstOccurrence(hist[i].closing, hist[i].ahead))

\* The bytes of a text that are not leading whitespace at a column below
\* the indent, lead telling whether the text starts in the leading
\* whitespace of a line and col at which column.
RECURSIVE Kept(_, _, _, _)
Kept(text, indent, lead, col) ==
    IF text = <<>> THEN <<>>
    ELSE IF Head(text) = NL
    THEN <<NL>> \o Kept(Tail(text), indent, TRUE, 0)
    ELSE IF lead /\ isspace(Head(text))
    THEN (IF col < indent THEN <<>> ELSE <<Head(text)>>)
         \o Kept(Tail(text), indent, TRUE, col + 1)
    ELSE <<Head(text)>> \o Kept(Tail(text), indent, FALSE, col)

\* The skips that end at the one place where the closing stands, no byte
\* of it standing before and a NUL after the closing name: where the skip
\* ends is not in question.
PlainSkip(h) ==
    /\ h.call = "skip" /\ h.why = "" /\ h.after = NUL
    /\ Occurrences(h.closing, h.ahead) # {}
    /\ \A p \in 1..(FirstOccurrence(h.closing, h.ahead) - 1) :
          \A q \in 1..Len(h.closing) : h.ahead[p] # h.closing[q]
Before(h) == Take(h.ahead, FirstOccurrence(h.closing, h.ahead) - 1)

\* C31: the text scanner_skip returns is the bytes before the closing less
\* the leading whitespace of each continuation line that stands at a
\* column below the indent; leading whitespace at or beyond the indent and
\* every other byte are kept.
C31_SkipDropsBelowIndentOnly ==
    \A i \in 1..Len(hist) : PlainSkip(hist[i]) =>
        hist[i].comment = Kept(Before(hist[i]), hist[i].indent,
                               hist[i].checking, hist[i].column)

\* The scanner_close_parenthese calls of the history.
Closes == {i \in 1..Len(hist) : hist[i].call = "close"}
\* The record of the scanner_open_parenthese that a close matches.
OpenOf(h) == hist[h.open]

\* C25: scanner_close_parenthese with the value of the matching
\* scanner_open_parenthese restores indent and setting_indent as they were
\* at the open, and pops the indent stack whenever the restored indent is
\* the top of the stack.
C25_CloseRestoresAndPops ==
    \A i \in Closes :
        /\ hist[i].why = ""
        /\ hist[i].restored = OpenOf(hist[i]).indent
        /\ hist[i].setting_after = OpenOf(hist[i]).setting
        /\ hist[i].levels # <<>> /\ Last(hist[i].levels) = hist[i].restored
              => hist[i].levels_after = Front(hist[i].levels)

\* The indent stack a close has to leave: one level less when no
\* setting_indent is pending at the close (a line break was read since the
\* last open) and the restored indent is the top of the stack.
LevelsAfterClose(h) ==
    IF ~h.setting /\ h.levels # <<>> /\ Last(h.levels) = h.restored
    THEN Front(h.levels) ELSE h.levels

\* C25, amended: scanner_close_parenthese restores indent and
\* setting_indent as they were at the matching open, and pops one level of
\* the indent stack exactly when setting_indent is clear at the close and
\* the restored indent is the top of the stack.
C25_CloseRestoresAndPopsAfterLineBreak ==
    \A i \in Closes :
        /\ hist[i].why = ""
        /\ hist[i].restored = OpenOf(hist[i]).indent
        /\ hist[i].setting_after = OpenOf(hist[i]).setting
        /\ hist[i].levels_after = LevelsAfterClose(hist[i])

\* A close of a nested parenthese after a line break: it pops a level and
\* sets setting_indent again; and a close right after its open, with the
\* indent on top of the stack, that pops nothing.
C25_Witness ==
    /\ \E i \in Closes :
          /\ OpenOf(hist[i]).setting
          /\ ~hist[i].setting
          /\ hist[i].levels_after = Front(hist[i].levels)
          /\ hist[i].setting_after
    /\ \E i \in Closes :
          /\ hist[i].setting
          /\ hist[i].levels # <<>>
          /\ Last(hist[i].levels) = hist[i].restored
          /\ hist[i].levels_after = hist[i].levels

\* The indent stack, the indent and setting_indent after call i: those
\* before the next call, or the scanner's.
LevelsAfter(i) == IF i < Len(hist) THEN hist[i + 1].levels ELSE s.indents
IndentAfter(i) == IF i < Len(hist) THEN hist[i + 1].indent ELSE s.indent
SettingAfter(i) == IF i < Len(hist) THEN hist[i + 1].setting ELSE s.setting_indent

\* Is a reader set after call i?
ReaderAfter(i) == IF i < Len(hist) THEN hist[i + 1].reader ELSE s.reader

\* The reader delivered nothing during call i: the call began with a reader
\* and ended without.
ReaderEnded(i) == hist[i].reader /\ ~ReaderAfter(i)

\* scanner_read on a scanner no stream was opened on.
ReadUnopened(mem) ==
    scanner_read(Machine(NewScanner(s.syntax), stream, position, errors, mem))

\* C26: once the reader has delivered nothing it is not invoked again, in
\* that call or a later one, and every later scanner_read returns EOF; a
\* scanner_read with no stream open returns EOF.
C26_EofIsAbsorbing ==
    /\ \A i \in Calls :
          hist[i].invoked = hist[i].taken + (IF ReaderEnded(i) THEN 1 ELSE 0)
    /\ \A i \in Calls : ~hist[i].reader =>
          /\ hist[i].tok = "EOF"
          /\ hist[i].invoked = 0
          /\ ~ReaderAfter(i)
    /\ \A mem \in OobChoices :
          ReadUnopened(mem).tok = "EOF" /\ ReadUnopened(mem).m.invoked = 0

\* A scanner_read after the reader delivered nothing in an earlier call
\* that returned a token.
C26_Witness ==
    \E i \in Calls : i > 1 /\ ~hist[i].reader /\ hist[i].tok = "EOF"
                     /\ ReaderEnded(i - 1) /\ hist[i - 1].tok = "NAME"

\* The kind of value each token comes with.
ValueKind(token) ==
    CASE token = "INTEGER" -> "natural"
      [] token = "REAL" -> "real"
      [] token = "CHARACTER" -> "character"
      [] token = "TEXT" -> "text"
      [] token = "BLOB" -> "blob"
      [] token \in {"NAME", "SYMBOL", "OPEN", "CLOSE"} -> "name"
      [] OTHER -> "none"

\* C27: when scanner_read returns, the scanned value is of the kind of the
\* token returned, and there is none with EOF, NEWLINE, INDENT, UNINDENT and
\* ERROR: the value of an earlier call is never seen.
C27_ValueMatchesToken ==
    \A i \in Calls : Returned(i) => hist[i].value.kind = ValueKind(hist[i].tok)

\* An EOF without a value right after a CLOSE with its name.
C27_Witness ==
    \E i \in Calls : /\ i > 1 /\ hist[i - 1].tok = "CLOSE"
                     /\ hist[i - 1].value.kind = "name"
                     /\ hist[i].tok = "EOF" /\ ~Valued(i)

\* The dedent branch: a line break, setting_indent clear, at a column not
\* right of the indent and left of the top of the indent stack.
DedentBranch(i) ==
    /\ hist[i].call = "read" /\ LineBreak(i) /\ Returned(i)
    /\ ~hist[i].setting
    /\ hist[i].column <= hist[i].indent
    /\ hist[i].levels # <<>> /\ hist[i].column < Last(hist[i].levels)

\* The stack of the dedent branch after its pop, and that stack's top.
Remaining(i) == Front(hist[i].levels)
NewTop(i) == Last(Remaining(i))

\* The dedent branch pops one level and makes the column the indent.
DedentPops(i) ==
    /\ LevelsAfter(i) = Remaining(i)
    /\ IndentAfter(i) = hist[i].column
    /\ hist[i].tok \in {"ERROR", "UNINDENT"}

\* C28: in the dedent branch, after popping one level and setting indent to
\* the column, the call returns ERROR exactly when the new top of the stack
\* is still greater than the column, and UNINDENT otherwise.
C28_ErrorWhenTopStillGreater ==
    \A i \in Calls : DedentBranch(i) =>
        /\ DedentPops(i)
        /\ hist[i].tok = "ERROR" <=>
              (Remaining(i) # <<>> /\ NewTop(i) > hist[i].column)

\* C28, amended: in the dedent branch, after popping one level and setting
\* indent to the column, the call returns ERROR exactly when the stack is
\* still not empty and its new top is less than the column, and UNINDENT
\* otherwise.
C28_ErrorWhenTopLeftOfColumn ==
    \A i \in Calls : DedentBranch(i) =>
        /\ DedentPops(i)
        /\ hist[i].tok = "ERROR" <=>
              (Remaining(i) # <<>> /\ NewTop(i) < hist[i].column)

\* A dedent that returned ERROR with a new top left of the column.
C28_Witness ==
    \E i \in Calls : /\ DedentBranch(i) /\ hist[i].tok = "ERROR"
                     /\ Remaining(i) # <<>> /\ NewTop(i) < hist[i].column

\* C29: a call returns INDENT only if it pushes exactly one level, the new
\* column, on the indent stack; a call that returns UNINDENT pops exactly
\* one level; and with no parenthese call and no ERROR the depth of the
\* stack is the number of INDENT less the number of UNINDENT returned.
C29_DepthCountsIndents ==
    /\ \A i \in Calls : hist[i].tok = "INDENT" =>
          LevelsAfter(i) = Append(hist[i].levels, hist[i].column)
    /\ \A i \in Calls : hist[i].tok = "UNINDENT" =>
          hist[i].levels # <<>> /\ LevelsAfter(i) = Front(hist[i].levels)
    /\ (\A i \in Calls : hist[i].call = "read" /\ hist[i].tok # "ERROR") =>
          Len(s.indents) = CountTok("INDENT") - CountTok("UNINDENT")

\* Two INDENT and two UNINDENT returned, one from the drain, and no ERROR.
C29_Witness ==
    /\ CountTok("INDENT") = 2 /\ CountTok("UNINDENT") = 2
    /\ CountTok("ERROR") = 0
    /\ \E i \in Calls : hist[i].tok = "UNINDENT" /\ hist[i].path = "drain"

\* A scanner_read call that scanned a line break while setting_indent was
\* set.
SetsIndent(i) == hist[i].call = "read" /\ LineBreak(i) /\ hist[i].setting

\* The calls between an open and its close that returned the token t.
Inside(o, j, t) == {k \in (o + 1)..(j - 1) : hist[k].tok = t}

\* The block of close j holds a line break that set the indent, and no
\* INDENT is left open in it: as many UNINDENT as INDENT were returned.
BlockClosed(j) ==
    /\ \E k \in (hist[j].open + 1)..(j - 1) : SetsIndent(k)
    /\ Cardinality(Inside(hist[j].open, j, "INDENT"))
           <= Cardinality(Inside(hist[j].open, j, "UNINDENT"))

\* C30: a line break scanned while setting_indent is set pushes the prior
\* indent, makes the line's column the indent, clears setting_indent and
\* returns NEWLINE, whatever the column; and the close of a block with such
\* a line break and no INDENT left open leaves the indent stack as deep as
\* it was at the matching open.
C30_LineBreakSetsBlockIndent ==
    /\ \A i \in Calls : SetsIndent(i) =>
          /\ hist[i].tok = "NEWLINE"
          /\ LevelsAfter(i) = Append(hist[i].levels, hist[i].indent)
          /\ IndentAfter(i) = hist[i].column
          /\ ~SettingAfter(i)
    /\ \A j \in Closes : BlockClosed(j) =>
          Len(hist[j].levels_after) = Len(OpenOf(hist[j]).levels)

-----------------------------------------------------------------------------
(* had_space_after                                                         *)

\* The next unread input byte: the first pending character, or else the
\* next byte of the stream; EOFc at end of input.
NextUnread ==
    IF s.pending_char[1] # 0 THEN s.pending_char[1]
    ELSE IF stream # <<>> THEN Head(stream) ELSE EOFc

ValueTokens == {"INTEGER", "REAL", "BLOB", "NAME", "TEXT", "CHARACTER",
                "SYMBOL", "OPEN", "CLOSE"}
ValueReturned ==
    /\ hist # <<>>
    /\ Last(hist).call = "read"
    /\ Last(hist).why = ""
    /\ Last(hist).tok \in ValueTokens

\* C32: whenever scanner_read has returned INTEGER, REAL, BLOB, NAME, TEXT,
\* CHARACTER, SYMBOL, OPEN or CLOSE, had_space_after is true exactly when
\* the next unread input byte is whitespace, and false at end of input.
C32_SpaceAfterIsNextByte ==
    ValueReturned => (s.had_space_after <=> isspace(NextUnread))

-----------------------------------------------------------------------------
(* indent_char                                                             *)

\* The bytes of the input a call has consumed: all but the pending ones and
\* those the reader has not given yet.
Unread(sc, in) == SelectSeq(Pending(sc) \o in, LAMBDA c : c # EOFc)
Consumed(sc, in) == Len(given) - Len(Unread(sc, in))
Eaten == SubSeq(given, Consumed(s, stream) + 1, Consumed(s', stream'))

RECURSIVE WhitePrefix(_)
WhitePrefix(q) ==
    IF q = <<>> \/ ~isspace(Head(q)) THEN <<>>
    ELSE <<Head(q)>> \o WhitePrefix(Tail(q))

RECURSIVE AfterFirstBreak(_)
AfterFirstBreak(q) ==
    IF q = <<>> THEN <<>>
    ELSE IF Head(q) = NL THEN Tail(q) ELSE AfterFirstBreak(Tail(q))

RECURSIVE AfterLastBreak(_)
AfterLastBreak(q) ==
    IF Count(q, NL) = 0 THEN q ELSE AfterLastBreak(AfterFirstBreak(q))

\* The spaces and tabs of the leading indentation a call went through: those
\* after a line break, among the whitespace before the token.
Leading(w, checking) ==
    SelectSeq(IF checking THEN w ELSE AfterFirstBreak(w), LAMBDA c : c \in {SP, TAB})

\* indent_char after a call that went through the leading spaces and tabs
\* `lead': what it was, or else the first of them.
Decided(ic, lead) ==
    IF ic # 0 THEN ic ELSE IF lead = <<>> THEN 0 ELSE lead[1]
Differing(ic, lead) == Cardinality({k \in 1..Len(lead) : lead[k] # Decided(ic, lead)})

Reported(rec, message) == Cardinality({k \in 1..Len(rec.msgs) : rec.msgs[k].msg = message})

MixedChecked(w, rec) ==
    /\ s'.indent_char = Decided(s.indent_char, Leading(w, s.checking_indent))
    /\ s.indent_char # 0 => s'.indent_char = s.indent_char
    /\ Reported(rec, MixedIndent) = Differing(s.indent_char, Leading(w, s.checking_indent))
    /\ Count(w, NL) > 0 => s'.column = Len(AfterLastBreak(w))
    /\ rec.tok = "ERROR" => Reported(rec, BadUnindent) > 0

\* C33: indent_char is set by the first space or tab of a leading
\* indentation and never changes afterwards; each later leading space or tab
\* that differs from it is reported as mixed indentation, still counts one
\* column, and no ERROR token is returned unless a bad unindent is reported.
C33_MixedIndentationIsReportedOnly ==
    [][(hist' # hist /\ run' = "ok" /\ Last(hist').call = "read")
       => MixedChecked(WhitePrefix(Eaten), Last(hist'))]_vars

\* A line indented by a space and a tab after indent_char was decided: the
\* mixing was reported, the call returned INDENT and the next one the name.
C33_Witness ==
    /\ Len(hist) >= 2
    /\ run = "ok"
    /\ s.indent_char = SP
    /\ Reported(hist[Len(hist) - 1], MixedIndent) = 1
    /\ hist[Len(hist) - 1].tok = "INDENT"
    /\ hist[Len(hist) - 1].column = 2
    /\ Last(hist).tok = "NAME"

-----------------------------------------------------------------------------
(* Integers with an exponent                                               *)

\* base^n modulo 2^64 by n multiplications, for a small n.
RECURSIVE Power(_, _)
Power(base, n) ==
    IF n = 0 THEN U64One ELSE U64Mul(U64FromSmall(base), Power(base, n - 1))

\* The exponent written by `digits' (no leading zero) is 64 or more.
Beyond63(digits) ==
    Len(digits) > 2 \/ (Len(digits) = 2 /\ 10 * digits[1] + digits[2] >= 64)
Written(digits) ==
    IF Len(digits) = 1 THEN digits[1] ELSE 10 * digits[1] + digits[2]

\* mantissa * base^e modulo 2^64.  The bases of the literals are even, so
\* 2^64 divides base^e when e is 64 or more.
ScaledValue(lit) ==
    U64Mul(U64FromSmall(lit.head.mantissa),
           IF Beyond63(lit.digits) THEN U64Zero
           ELSE Power(lit.head.base, Written(lit.digits)))

ExponentRead(lit) ==
    /\ given = ExponentText(lit)
    /\ hist # <<>>
    /\ hist[1].why = ""

\* C34: a number without fractional part and with a non-negative decimal
\* exponent e is returned as INTEGER with the value mantissa * base^e modulo
\* 2^64; with a '-' exponent sign the token is REAL.
C34_IntegerTimesBaseToTheExponent ==
    \A lit \in ExponentLiterals : ExponentRead(lit) =>
        IF lit.sign = <<MINUS>> THEN hist[1].tok = "REAL"
        ELSE /\ hist[1].tok = "INTEGER"
             /\ hist[1].value.value = ScaledValue(lit)

-----------------------------------------------------------------------------
(* delimited_text.c: delimited_text_handler                                *)

\* The nodes before any call: a text and two names, each with 1 to
\* MaxHolders references; at most MaxHandlerCalls calls of the handler.
MaxHolders == 2
MaxHandlerCalls == 2
LeafHandlers == <<"text_handler", "name_handler", "name_handler">>
Leaf(handler, refcount) ==
    [handler |-> handler, refcount |-> refcount, children |-> <<>>, freed |-> FALSE]
TreeHeaps ==
    { [n \in 1..Len(LeafHandlers) |-> Leaf(LeafHandlers[n], r[n])] :
        r \in [1..Len(LeafHandlers) -> 1..MaxHolders] }
NodesOf(heap, handler) == {n \in 1..Len(heap) : heap[n].handler = handler}

\* tree_malloc: raw storage at the end of the heap; nothing of it is set.
tree_malloc(heap) == Append(heap, Leaf("none", 0))

\* What the base handler may return for TREE_INITIALIZE: its tree argument
\* or no node.  It is not given the node the caller has allocated.
BaseInitialized(tree) == {tree, 0}

\* tree_handler, the base handler: COPY is one reference more on the node,
\* which is returned.  The result is [heap, result].
tree_handler(cmd, tree, heap, choice) ==
    IF cmd = "TREE_COPY" THEN [heap |-> tree_use(heap, tree), result |-> tree]
    ELSE [heap |-> heap, result |-> choice]

\* Lines 64-71: the new node and its three children, each used once.
Delimited(heap, va) ==
    [tree_use(tree_use(tree_use(tree_malloc(heap), va[1]), va[2]), va[3])
        EXCEPT ![Len(heap) + 1].children = va]

\* Lines 73-77: the call of the base handler returns for the handler.
ByTreeHandler(r, allocated) ==
    [heap |-> r.heap, result |-> r.result, allocated |-> allocated, based |-> TRUE]

\* delimited_text_handler for TREE_INITIALIZE, TREE_DELETE, TREE_COPY and
\* TREE_CLONE: no return and no break ends the TREE_INITIALIZE case, which
\* runs into the next ones.  The result is [heap, result, allocated, based].
delimited_text_handler(cmd, tree, va, heap, choice) ==
    IF cmd = "TREE_INITIALIZE"
    THEN ByTreeHandler(tree_handler(cmd, tree, Delimited(heap, va), choice),
                       Len(heap) + 1)
    ELSE ByTreeHandler(tree_handler(cmd, tree, heap, choice), 0)

Handled(r, cmd, tree, va) ==
    /\ out' = [heap |-> r.heap, calls |-> out.calls + 1,
               last |-> [cmd |-> cmd, tree |-> tree, va |-> va, result |-> r.result,
                         allocated |-> r.allocated, based |-> r.based,
                         before |-> out.heap]]
    /\ UNCHANGED <<s, stream, position, errors, tok, run, hist, given, sink>>

\* A call with TREE_INITIALIZE, a text and two names.
Initialize ==
    /\ out.calls < MaxHandlerCalls
    /\ \E value \in NodesOf(out.heap, "text_handler") :
       \E opening \in NodesOf(out.heap, "name_handler") :
       \E closing \in NodesOf(out.heap, "name_handler") :
       \E tree \in 0..Len(LeafHandlers) :
       \E choice \in BaseInitialized(tree) :
          Handled(delimited_text_handler("TREE_INITIALIZE", tree,
                                         <<value, opening, closing>>, out.heap, choice),
                  "TREE_INITIALIZE", tree, <<value, opening, closing>>)

\* A call with TREE_COPY on a node.
Copy ==
    /\ out.calls < MaxHandlerCalls
    /\ \E tree \in 1..Len(out.heap) :
          Handled(delimited_text_handler("TREE_COPY", tree, <<>>, out.heap, 0),
                  "TREE_COPY", tree, <<>>)

InitTree ==
    /\ \E heap \in TreeHeaps :
          out = [heap |-> heap, calls |-> 0, last |-> [cmd |-> "none"]]
    /\ given = <<>>
    /\ stream = <<>>
    /\ s = NewScanner(NoSyntax)
    /\ position = 0
    /\ errors = <<>>
    /\ tok = "NONE"
    /\ run = "ok"
    /\ hist = <<>>
    /\ sink = NoSink
NextTree == Initialize \/ Copy
SpecTree == InitTree /\ [][NextTree]_vars

\* The references a call has added to node n.
Added(n) == out.heap[n].refcount - out.last.before[n].refcount

\* The node allocated by the last call has the arguments as its children,
\* and each argument has one reference more for each time it is given.
ChildrenUsed ==
    /\ out.heap[out.last.allocated].children = out.last.va
    /\ \A n \in 1..Len(out.last.before) : Added(n) = Count(out.last.va, n)

\* C35: delimited_text_handler with TREE_INITIALIZE and (value, opening,
\* closing) returns the node it has allocated, whose three children are the
\* arguments with one more reference each, and does not go on into the base
\* handler.
C35_InitializeReturnsTheNewNode ==
    out.last.cmd = "TREE_INITIALIZE" =>
        /\ out.last.result = out.last.allocated
        /\ ChildrenUsed
        /\ ~out.last.based

-----------------------------------------------------------------------------
(* Termination                                                             *)

\* A call has made progress: it has consumed input or popped the indent
\* stack.
Progressed ==
    \/ Consumed(s', stream') > Consumed(s, stream)
    \/ Len(s'.indents) < Len(s.indents)

\* C36: for every finite input, repeatedly calling scanner_read returns EOF
\* after finitely many calls: every call returns, and a call that returns a
\* token other than EOF has consumed input or popped the indent stack.
C36_EveryCallProgresses ==
    [][hist' # hist => (run' = "ok" /\ (tok' = "EOF" \/ Progressed))]_vars

-----------------------------------------------------------------------------
(* indents_top                                                             *)

\* The calls that evaluate indents_top on the stack they were entered
\* with: a scanner_read that reaches the dedent test of line 368 (a line
\* break, setting_indent clear, the column not right of the indent), and
\* a scanner_close_parenthese with setting_indent clear (line 918).
ReadsTop(h) ==
    \/ /\ h.call = "read" /\ h.path = "line" /\ h.tok \in TokenKinds
       /\ ~h.setting /\ h.column <= h.indent
    \/ h.call = "close" /\ ~h.setting

\* C37: indents_top is evaluated only when the indent stack is non-empty,
\* in the dedent test of scanner_read and in scanner_close_parenthese.
C37_TopOfNonEmptyStackOnly ==
    \A i \in 1..Len(hist) : ReadsTop(hist[i]) => hist[i].levels # <<>>

-----------------------------------------------------------------------------
(* End of input                                                            *)

\* C38: when scanner_read returns EOF, every byte of the input has been
\* delivered: no byte is left pending or unread.
C38_NothingUnreadAtEof ==
    (hist # <<>> /\ Last(hist).call = "read" /\ Last(hist).tok = "EOF")
        => Unread(s, stream) = <<>>

-----------------------------------------------------------------------------
(* The pushback buffer                                                     *)

TooManyPending == "assert: Max two pending char at a time"

Reverse(q) == [k \in 1..Len(q) |-> q[Len(q) + 1 - k]]

\* What n calls of scanner_getchar give, in order.
RECURSIVE Reread(_, _)
RereadMore(g, n) == <<g.c>> \o Reread(g.m, n - 1)
Reread(m, n) == IF n = 0 THEN <<>> ELSE RereadMore(scanner_getchar(m), n)

\* The scanner as the last call left it; no lookup is out of bounds here.
Left == Machine(s, stream, position, errors,
                [base_value |-> NoDigit, base64_value |-> NoDigit])

\* The scanner after n calls of scanner_getchar.
RECURSIVE AfterReread(_, _)
AfterReread(m, n) ==
    IF n = 0 THEN m ELSE AfterReread(scanner_getchar(m).m, n - 1)

\* The characters the last call pushed back are what scanner_getchar gives
\* next, the one pushed last first, without a call of the reader.
PushedAreReread(h) ==
    /\ Len(h.pushed) <= 2
    /\ Reread(Left, Len(h.pushed)) = Reverse(h.pushed)
    /\ AfterReread(Left, Len(h.pushed)).invoked = 0

\* C39: the second pending slot is empty at every call of
\* scanner_ungetchar, it is non-empty only if the first one is, and the
\* pending characters are re-read by scanner_getchar in input order before
\* any new byte is requested from the reader.
C39_PendingAreRereadInOrder ==
    /\ \A i \in 1..Len(hist) : hist[i].why # TooManyPending
    /\ s.pending_char[2] # 0 => s.pending_char[1] # 0
    /\ (hist # <<>> /\ Last(hist).call = "read" /\ Last(hist).why = "")
          => PushedAreReread(Last(hist))

-----------------------------------------------------------------------------
(* OPEN and CLOSE                                                          *)

\* The OPEN calls before call i with no CLOSE between them and call i.
OpenBefore(i) ==
    {j \in 1..(i - 1) : /\ hist[j].tok = "OPEN"
                        /\ \A k \in (j + 1)..(i - 1) : hist[k].tok # "CLOSE"}
LastOpen == CHOOSE j \in OpenBefore(Len(hist) + 1) :
                \A k \in OpenBefore(Len(hist) + 1) : k <= j

\* C40: with a syntax table, CLOSE is returned only if OPEN was returned
\* earlier and no CLOSE since; block_close holds the closer of the opener
\* scanned last and is emptied when CLOSE is returned.
C40_CloseOnlyAfterOpen ==
    /\ \A i \in 1..Len(hist) : hist[i].tok = "CLOSE" => OpenBefore(i) # {}
    /\ (hist # <<>> /\ Last(hist).tok = "CLOSE") => s.block_close = NoName
    /\ s.block_close # NoName =>
          /\ OpenBefore(Len(hist) + 1) # {}
          /\ s.block_close = BlockClosing(s.syntax, hist[LastOpen].value.value)

\* "())" with the syntax table: OPEN, CLOSE, and the second ')' is a
\* SYMBOL.
C40_Witness ==
    /\ given = <<LPAREN, RPAREN, RPAREN>>
    /\ Len(hist) = 3
    /\ Toks = <<"OPEN", "CLOSE", "SYMBOL">>

=========================================================================
